---- MODULE Spec2Model ----
(***************************************************************************)
(* Model of the smoothing-pool reward oracle: the per-slot state-replay    *)
(* step (Oracle.AdvanceStateToNextSlot), the validator state machine and   *)
(* the reward ledger it drives, the subscription handlers, the API's       *)
(* overlay of events that are not finalized (ApplyNonFinalizedState), the  *)
(* leaves and the Merkle tree of a checkpoint, the driver's loop (main,    *)
(* mainLoop), and the API's handlers running beside the driver.            *)
(*                                                                         *)
(* The oracle state type (OracleState and its methods) and the Merklelizer *)
(* are not among the source files; their methods are modelled from the     *)
(* specification (§4.3, §4.4, §4.5, §4.7), from their tests and from the   *)
(* call sequences of their callers, which are.                             *)
(***************************************************************************)
EXTENDS Integers, Sequences, FiniteSets, TLC

(***************************************************************************)
(* Bounds of the model.                                                    *)
(***************************************************************************)
NumValidators == 2      \* validator indices 1..NumValidators
MaxSlot == 2            \* per-slot steps taken in one run
MaxTrail == 4           \* state-machine events fired in one run
MaxReplays == 1         \* times one step is replayed on its initial state
MaxQueries == 2         \* times one query of the API is answered
NumLeafValidators == 3  \* validators of a state whose leaves are built
MaxEpoch == 2           \* finalized epochs the beacon node reports, from 0
MaxProcessed == 3       \* slots the driver processes in one run
MaxWaits == 2           \* iterations of the driver that sleep in one run
MaxTreeValidators == 6  \* validators of a state whose tree is built, from 0
MaxRequests == 1        \* API requests served during one run of the driver

(***************************************************************************)
(* Program constants.                                                      *)
(***************************************************************************)
CollateralInWei == 1000         \* config.CollateralInWei, as the tests set it
DeployedSlot == 0               \* first slot the oracle processes

Vals == 1..NumValidators

\* Candidate values of the inputs (wei amounts).
BlockReward == 10005
LowCollateral == 1
DonationAmounts == {5}
PoolFeesPercents == {0, 10}
PendingBalances == {0, 23, 100}         \* pending balances of a drawn ledger state
AccumulatedBalances == {0, 77}          \* accumulated balances of a drawn ledger state
LedgerAmounts == {0, 7, 130, BlockReward}   \* amounts handed to IncreaseAllPendingRewards

\* Validator statuses (ValidatorStatus).
Untracked == "Untracked"
NotSubscribed == "NotSubscribed"
Active == "Active"
YellowCard == "YellowCard"
RedCard == "RedCard"
Banned == "Banned"
Statuses == {Untracked, NotSubscribed, Active, YellowCard, RedCard, Banned}
SubscribedStatuses == {Active, YellowCard, RedCard}

\* Events of the validator state machine.
ProposalWithCorrectFee == "ProposalWithCorrectFee"
ProposalWithWrongFee == "ProposalWithWrongFee"
MissedProposalEvent == "MissedProposalEvent"
UnbanValidator == "UnbanValidator"
ManualSubscription == "ManualSubscription"
ManualUnsubscription == "ManualUnsubscription"
Events == {ProposalWithCorrectFee, ProposalWithWrongFee, MissedProposalEvent,
           UnbanValidator, ManualSubscription, ManualUnsubscription}

\* Block types (BlockType).
MissedProposal == "MissedProposal"
OkPoolProposal == "OkPoolProposal"
OkPoolProposalBlsKeys == "OkPoolProposalBlsKeys"
WrongFeeRecipient == "WrongFeeRecipient"
BlockTypes == {MissedProposal, OkPoolProposal, OkPoolProposalBlsKeys, WrongFeeRecipient}

\* Addresses.  WithdrawalOf(v) is the eth1 withdrawal address the beacon chain
\* holds for validator v (one address may back several validators); OtherSender
\* is an address that is no validator's.
OtherSender == "0xff"
WithdrawalOf(v) == IF v = 2 THEN "0xbb" ELSE "0xaa"

VARIABLES
    state,      \* the oracle state (OracleState): validators, fees, latest slot, donations
    cfg,        \* the configuration, fixed at deploy: poolFeesPercent
    ghost,      \* totals of what the processed stream carried in (rewards, collateral, donations)
    last,       \* the operation last run, with its inputs and its outcome
    pre         \* the oracle state the last operation started from

vars == <<state, cfg, ghost, last, pre>>

(***************************************************************************)
(* Helpers over the validator map.                                         *)
(***************************************************************************)
RECURSIVE SumOver(_, _)
SumOver(f, S) ==
    IF S = {} THEN 0
    ELSE LET x == CHOOSE y \in S : TRUE IN f[x] + SumOver(f, S \ {x})

Tracked(st) == DOMAIN st.validators

StatusOf(st, v) == IF v \in Tracked(st) THEN st.validators[v].status ELSE Untracked
PendingOf(st, v) == IF v \in Tracked(st) THEN st.validators[v].pending ELSE 0
AccumulatedOf(st, v) == IF v \in Tracked(st) THEN st.validators[v].accumulated ELSE 0

SumPending(st) == SumOver([v \in Tracked(st) |-> st.validators[v].pending], Tracked(st))
SumAccumulated(st) == SumOver([v \in Tracked(st) |-> st.validators[v].accumulated], Tracked(st))

NewValidator(v, status, withdrawal) ==
    [status |-> status, pending |-> 0, accumulated |-> 0, collateral |-> 0,
     withdrawal |-> withdrawal,
     proposed |-> <<>>, missed |-> <<>>, wrongFee |-> <<>>]

\* The pool's address of the configuration the state is created with.
PoolAddress == "0x00"

InitialState ==
    [validators |-> [v \in {} |-> NewValidator(v, Untracked, "")],
     poolAddress |-> PoolAddress,
     poolAccumulatedFees |-> 0,
     latestSlot |-> DeployedSlot,
     donations |-> <<>>]

(***************************************************************************)
(* Validator state machine (§4.3): the status an event leads to.  An entry *)
(* the table leaves empty is no transition: the status stays.              *)
(***************************************************************************)
\* Variant: a third missed proposal bans the validator.
TransitionThirdStrikeBans(status, event) ==
    IF status = RedCard /\ event = MissedProposalEvent THEN Banned
    ELSE CASE status = Banned -> IF event = UnbanValidator THEN Active ELSE Banned
           [] status = Active /\ event = ProposalWithWrongFee -> Banned
           [] status = Active /\ event = MissedProposalEvent -> YellowCard
           [] status = Active /\ event = ManualUnsubscription -> NotSubscribed
           [] status = YellowCard /\ event = ProposalWithCorrectFee -> Active
           [] status = YellowCard /\ event = ProposalWithWrongFee -> Banned
           [] status = YellowCard /\ event = MissedProposalEvent -> RedCard
           [] status = YellowCard /\ event = ManualUnsubscription -> NotSubscribed
           [] status = RedCard /\ event = ProposalWithCorrectFee -> YellowCard
           [] status = RedCard /\ event = ProposalWithWrongFee -> Banned
           [] status = RedCard /\ event = ManualUnsubscription -> NotSubscribed
           [] status \in {Untracked, NotSubscribed}
                /\ event \in {ProposalWithCorrectFee, ManualSubscription} -> Active
           [] OTHER -> status

\* Variant: UnbanValidator resets any validator to Active.
TransitionUnbanResets(status, event) ==
    IF event = UnbanValidator THEN Active
    ELSE CASE status = Banned -> Banned
           [] status = Active /\ event = ProposalWithWrongFee -> Banned
           [] status = Active /\ event = MissedProposalEvent -> YellowCard
           [] status = Active /\ event = ManualUnsubscription -> NotSubscribed
           [] status = YellowCard /\ event = ProposalWithCorrectFee -> Active
           [] status = YellowCard /\ event = ProposalWithWrongFee -> Banned
           [] status = YellowCard /\ event = MissedProposalEvent -> RedCard
           [] status = YellowCard /\ event = ManualUnsubscription -> NotSubscribed
           [] status = RedCard /\ event = ProposalWithCorrectFee -> YellowCard
           [] status = RedCard /\ event = ProposalWithWrongFee -> Banned
           [] status = RedCard /\ event = ManualUnsubscription -> NotSubscribed
           [] status \in {Untracked, NotSubscribed}
                /\ event \in {ProposalWithCorrectFee, ManualSubscription} -> Active
           [] OTHER -> status

Transition(status, event) ==
    CASE status = Untracked ->
            IF event \in {ProposalWithCorrectFee, ManualSubscription} THEN Active ELSE Untracked
      [] status = NotSubscribed ->
            IF event \in {ProposalWithCorrectFee, ManualSubscription} THEN Active ELSE NotSubscribed
      [] status = Active ->
            CASE event = ProposalWithWrongFee -> Banned
              [] event = MissedProposalEvent -> YellowCard
              [] event = ManualUnsubscription -> NotSubscribed
              [] OTHER -> Active
      [] status = YellowCard ->
            CASE event = ProposalWithCorrectFee -> Active
              [] event = ProposalWithWrongFee -> Banned
              [] event = MissedProposalEvent -> RedCard
              [] event = ManualUnsubscription -> NotSubscribed
              [] OTHER -> YellowCard
      [] status = RedCard ->
            CASE event = ProposalWithCorrectFee -> YellowCard
              [] event = ProposalWithWrongFee -> Banned
              [] event = ManualUnsubscription -> NotSubscribed
              [] OTHER -> RedCard
      [] status = Banned ->
            IF event = UnbanValidator THEN Active ELSE Banned

\* OracleState.AdvanceStateMachine(valIndex, event): fires event on a tracked validator.
AdvanceStateMachine(st, v, event) ==
    IF v \notin Tracked(st) THEN st
    ELSE [st EXCEPT !.validators[v].status = Transition(@, event)]

\* OracleState.IsValidatorSubscribed(valIndex): Active, YellowCard or RedCard.
IsValidatorSubscribed(st, v) == StatusOf(st, v) \in SubscribedStatuses

SubscribedSet(st) == {v \in Tracked(st) : IsValidatorSubscribed(st, v)}

(***************************************************************************)
(* Reward ledger (§4.4).                                                   *)
(***************************************************************************)
\* OracleState.SendRewardToPool(amount)
SendRewardToPool(st, amount) ==
    [st EXCEPT !.poolAccumulatedFees = @ + amount]

\* Variant: the floor remainder of the division is not credited to the pool.
IncreaseAllPendingRewardsDropsRemainder(st, totalAmount) ==
    LET S == {v \in DOMAIN st.validators : st.validators[v].status \in SubscribedStatuses}
        n == Cardinality(S)
        poolCut == (totalAmount * cfg.poolFeesPercent) \div 100
        R == totalAmount - poolCut
    IN  IF n = 0
        THEN [st EXCEPT !.poolAccumulatedFees = @ + totalAmount]
        ELSE [st EXCEPT
                !.validators = [v \in DOMAIN st.validators |->
                    IF v \in S
                    THEN [st.validators[v] EXCEPT !.pending = @ + (R \div n)]
                    ELSE st.validators[v]],
                !.poolAccumulatedFees = @ + poolCut]

\* Variant: every tracked validator that is not Banned gets a share, NotSubscribed included.
IncreaseAllPendingRewardsPaysUnsubscribed(st, totalAmount) ==
    LET S == {v \in DOMAIN st.validators : st.validators[v].status # Banned}
        n == Cardinality(S)
        poolCut == (totalAmount * cfg.poolFeesPercent) \div 100
        R == totalAmount - poolCut
    IN  IF n = 0
        THEN [st EXCEPT !.poolAccumulatedFees = @ + totalAmount]
        ELSE [st EXCEPT
                !.validators = [v \in DOMAIN st.validators |->
                    IF v \in S
                    THEN [st.validators[v] EXCEPT !.pending = @ + (R \div n)]
                    ELSE st.validators[v]],
                !.poolAccumulatedFees = @ + poolCut + (R % n)]

\* OracleState.IncreaseAllPendingRewards(totalAmount): the pool cut, then equal
\* floor shares to the subscribed validators, the floor remainder to the pool.
IncreaseAllPendingRewards(st, totalAmount) ==
    LET S == SubscribedSet(st)
        n == Cardinality(S)
        poolCut == (totalAmount * cfg.poolFeesPercent) \div 100
        R == totalAmount - poolCut
    IN  IF n = 0
        THEN SendRewardToPool(st, totalAmount)
        ELSE [st EXCEPT
                !.validators = [v \in Tracked(st) |->
                    IF v \in S
                    THEN [st.validators[v] EXCEPT !.pending = @ + (R \div n)]
                    ELSE st.validators[v]],
                !.poolAccumulatedFees = @ + poolCut + (R % n)]

\* Variant: the accumulated balance is overwritten by the pending one.
ConsolidateBalanceOverwrites(st, v) ==
    IF v \notin DOMAIN st.validators THEN st
    ELSE [st EXCEPT !.validators[v].accumulated = st.validators[v].pending,
                    !.validators[v].pending = 0]

\* OracleState.ConsolidateBalance(valIndex): accumulated += pending; pending = 0.
ConsolidateBalance(st, v) ==
    IF v \notin Tracked(st) THEN st
    ELSE [st EXCEPT !.validators[v].accumulated = @ + st.validators[v].pending,
                    !.validators[v].pending = 0]

\* OracleState.ResetPendingRewards(valIndex): the pending balance is set to zero.
\* The caller shares the balance out first (IncreaseAllPendingRewards of it,
\* once the validator has left the subscribed set).
ResetPendingRewards(st, v) ==
    IF v \notin Tracked(st) THEN st
    ELSE [st EXCEPT !.validators[v].pending = 0]

\* OracleState.AddSubscriptionIfNotAlready(valIndex, withdrawalAddress, key):
\* creates the record of a validator seen for the first time; an existing
\* record is left as it is.
AddSubscriptionIfNotAlready(st, v, withdrawal) ==
    IF v \in Tracked(st) THEN st
    ELSE [st EXCEPT !.validators =
            [x \in Tracked(st) \cup {v} |->
                IF x = v THEN NewValidator(v, Active, withdrawal) ELSE st.validators[x]]]

(***************************************************************************)
(* Subscription manager (§4.5).  A subscribe event carries the validator   *)
(* index, the collateral, the sender and what the beacon chain says of the *)
(* validator (whether it can still produce blocks).                        *)
(***************************************************************************)
\* Variant: the collateral bar is not looked at.
SubscriptionOkIgnoresCollateral(sub) ==
    /\ sub.sender = WithdrawalOf(sub.validatorId)
    /\ sub.canSubscribe

SubscriptionOk(sub) ==
    /\ sub.sender = WithdrawalOf(sub.validatorId)
    /\ sub.canSubscribe
    /\ sub.collateral >= CollateralInWei

ApplySubscription(st, sub) ==
    IF ~SubscriptionOk(sub)
    THEN SendRewardToPool(st, sub.collateral)
    ELSE LET v == sub.validatorId
             st1 == IF v \in Tracked(st)
                    THEN AdvanceStateMachine(st, v, ManualSubscription)
                    ELSE AddSubscriptionIfNotAlready(st, v, WithdrawalOf(v))
         IN  [st1 EXCEPT !.validators[v].pending = @ + sub.collateral,
                         !.validators[v].collateral = @ + sub.collateral]

\* OracleState.HandleManualSubscriptions(collateral, blockSubs): in insertion order.
RECURSIVE HandleManualSubscriptions(_, _)
HandleManualSubscriptions(st, blockSubs) ==
    IF blockSubs = <<>> THEN st
    ELSE HandleManualSubscriptions(ApplySubscription(st, Head(blockSubs)), Tail(blockSubs))

UnsubscriptionOk(st, unsub) ==
    /\ unsub.validatorId \in Tracked(st)
    /\ unsub.sender = st.validators[unsub.validatorId].withdrawal
    /\ IsValidatorSubscribed(st, unsub.validatorId)

\* Variant: the pending balance of the unsubscriber is dropped, not shared out.
ApplyUnsubscriptionDropsPending(st, unsub) ==
    IF ~UnsubscriptionOk(st, unsub) THEN st
    ELSE LET v == unsub.validatorId
             st1 == AdvanceStateMachine(st, v, ManualUnsubscription)
         IN  ResetPendingRewards(st1, v)

ApplyUnsubscription(st, unsub) ==
    IF ~UnsubscriptionOk(st, unsub) THEN st
    ELSE LET v == unsub.validatorId
             st1 == AdvanceStateMachine(st, v, ManualUnsubscription)
             st2 == IncreaseAllPendingRewards(st1, st1.validators[v].pending)
         IN  ResetPendingRewards(st2, v)

\* OracleState.HandleManualUnsubscriptions(blockUnsubs): in insertion order.
RECURSIVE HandleManualUnsubscriptions(_, _)
HandleManualUnsubscriptions(st, blockUnsubs) ==
    IF blockUnsubs = <<>> THEN st
    ELSE HandleManualUnsubscriptions(ApplyUnsubscription(st, Head(blockUnsubs)), Tail(blockUnsubs))

\* OracleState.HandleDonations(blockDonations)
RECURSIVE HandleDonations(_, _)
HandleDonations(st, blockDonations) ==
    IF blockDonations = <<>> THEN st
    ELSE HandleDonations(
            [SendRewardToPool(st, Head(blockDonations))
                EXCEPT !.donations = Append(@, Head(blockDonations))],
            Tail(blockDonations))

(***************************************************************************)
(* Non-finalized overlay of the API (ApplyNonFinalizedState).  An event    *)
(* carries the number of the block it was emitted in; its sender is        *)
(* printed in checksum (mixed) case, a record's withdrawal address is kept *)
(* in lower case.                                                          *)
(***************************************************************************)
ToLower(address) ==
    CASE address = "0xAA" -> "0xaa"
      [] address = "0xBB" -> "0xbb"
      [] OTHER -> address

\* Event.Sender.String() of an event sent by v's withdrawal address.
SenderOf(v) == IF WithdrawalOf(v) = "0xbb" THEN "0xBB" ELSE "0xAA"

\* Variant: any two addresses are taken as equal.
AreAddressEqualAlways(address1, address2) == TRUE

\* AreAddressEqual(address1, address2): equal without regard to case.  (All
\* addresses have one length, so the length check never fails.)
AreAddressEqual(address1, address2) == ToLower(address1) = ToLower(address2)

GetSubInBlock(subs, block) == SelectSeq(subs, LAMBDA sub : sub.blockNumber = block)

GetUnsubInBlock(unsubs, block) == SelectSeq(unsubs, LAMBDA unsub : unsub.blockNumber = block)

\* Variant: a subscription that applies is also added to the validator's
\* collateral.
RECURSIVE ApplySubsInBlockRecordsCollateral(_, _)
ApplySubsInBlockRecordsCollateral(validators, blockSub) ==
    IF blockSub = <<>> THEN validators
    ELSE LET subInBlock == Head(blockSub)
             valIndex == subInBlock.validatorId
             applies ==
                /\ valIndex \in DOMAIN validators
                /\ AreAddressEqual(validators[valIndex].withdrawal, subInBlock.sender)
                /\ subInBlock.collateral >= CollateralInWei
                /\ subInBlock.canSubscribe
                /\ validators[valIndex].status \in {Untracked, NotSubscribed}
         IN  ApplySubsInBlockRecordsCollateral(
                IF applies
                THEN [validators EXCEPT ![valIndex].status = Active,
                                        ![valIndex].pending = @ + subInBlock.collateral,
                                        ![valIndex].collateral = @ + subInBlock.collateral]
                ELSE validators,
                Tail(blockSub))

\* Variant: a subscription applies whatever the validator's status is.
RECURSIVE ApplySubsInBlockAnyStatus(_, _)
ApplySubsInBlockAnyStatus(validators, blockSub) ==
    IF blockSub = <<>> THEN validators
    ELSE LET subInBlock == Head(blockSub)
             valIndex == subInBlock.validatorId
             applies ==
                /\ valIndex \in DOMAIN validators
                /\ AreAddressEqual(validators[valIndex].withdrawal, subInBlock.sender)
                /\ subInBlock.collateral >= CollateralInWei
                /\ subInBlock.canSubscribe
         IN  ApplySubsInBlockAnyStatus(
                IF applies
                THEN [validators EXCEPT ![valIndex].status = Active,
                                        ![valIndex].pending = @ + subInBlock.collateral]
                ELSE validators,
                Tail(blockSub))

\* The subscriptions of one block, in the order of the slice.
RECURSIVE ApplySubsInBlock(_, _)
ApplySubsInBlock(validators, blockSub) ==
    IF blockSub = <<>> THEN validators
    ELSE LET subInBlock == Head(blockSub)
             valIndex == subInBlock.validatorId
             applies ==
                /\ valIndex \in DOMAIN validators
                /\ AreAddressEqual(validators[valIndex].withdrawal, subInBlock.sender)
                /\ subInBlock.collateral >= CollateralInWei
                /\ subInBlock.canSubscribe
                /\ validators[valIndex].status \in {Untracked, NotSubscribed}
         IN  ApplySubsInBlock(
                IF applies
                THEN [validators EXCEPT ![valIndex].status = Active,
                                        ![valIndex].pending = @ + subInBlock.collateral]
                ELSE validators,
                Tail(blockSub))

\* The unsubscriptions of one block, in the order of the slice.
RECURSIVE ApplyUnsubsInBlock(_, _)
ApplyUnsubsInBlock(validators, blockUnsub) ==
    IF blockUnsub = <<>> THEN validators
    ELSE LET unsubInBlock == Head(blockUnsub)
             valIndex == unsubInBlock.validatorId
             applies ==
                /\ valIndex \in DOMAIN validators
                /\ AreAddressEqual(validators[valIndex].withdrawal, unsubInBlock.sender)
                /\ validators[valIndex].status \in {Active, YellowCard, RedCard}
         IN  ApplyUnsubsInBlock(
                IF applies
                THEN [validators EXCEPT ![valIndex].status = NotSubscribed,
                                        ![valIndex].pending = 0]
                ELSE validators,
                Tail(blockUnsub))

\* The loop over eventsBlocksList, the block numbers in ascending order: the
\* subscriptions of a block, then its unsubscriptions.
RECURSIVE ApplyEventsBlocks(_, _, _, _)
ApplyEventsBlocks(eventsBlocksList, subs, unsubs, validators) ==
    IF eventsBlocksList = {} THEN validators
    ELSE LET block == CHOOSE b \in eventsBlocksList : \A c \in eventsBlocksList : b <= c
             afterSubs == ApplySubsInBlock(validators, GetSubInBlock(subs, block))
             afterUnsubs == ApplyUnsubsInBlock(afterSubs, GetUnsubInBlock(unsubs, block))
         IN  ApplyEventsBlocks(eventsBlocksList \ {block}, subs, unsubs, afterUnsubs)

\* ApiService.ApplyNonFinalizedState(subs, unsubs, validators): the map after
\* the events were applied to it.
ApplyNonFinalizedState(subs, unsubs, validators) ==
    ApplyEventsBlocks({subs[i].blockNumber : i \in DOMAIN subs}
                        \cup {unsubs[i].blockNumber : i \in DOMAIN unsubs},
                      subs, unsubs, validators)

\* handleMemoryValidatorsByWithdrawal: the map the handler builds for one
\* withdrawal address, an Untracked record for each validator of the address
\* on the beacon chain, overwritten by the oracle's record where it has one.
RequestedValidators(st, withdrawalAddress) ==
    [v \in {x \in Vals : AreAddressEqual(WithdrawalOf(x), withdrawalAddress)} |->
        IF v \in Tracked(st) THEN st.validators[v]
        ELSE NewValidator(v, Untracked, WithdrawalOf(v))]

\* Variant: the map holds the oracle's own records, so what the overlay writes
\* to a tracked validator is written to the oracle's state.
handleMemoryValidatorsByWithdrawalSharesRecords(st, withdrawalAddress, subs, unsubs) ==
    LET requestedValidators == RequestedValidators(st, withdrawalAddress)
        response == ApplyNonFinalizedState(subs, unsubs, requestedValidators)
    IN  [requestedValidators |-> requestedValidators,
         response |-> response,
         validators |-> [v \in Tracked(st) |->
                            IF v \in DOMAIN response THEN response[v]
                            ELSE st.validators[v]]]

\* handleMemoryValidatorsByWithdrawal: the map built for the address, the map
\* answered, and the oracle's validators when the handler returns.  The tracked
\* records in the map are those of a deep copy, so the overlay writes to the
\* copy and the oracle's validators stay as they were.
handleMemoryValidatorsByWithdrawal(st, withdrawalAddress, subs, unsubs) ==
    LET requestedValidators == RequestedValidators(st, withdrawalAddress)
        validatorsCopy == st.validators
        response ==
            IF DOMAIN requestedValidators = {} THEN requestedValidators
            ELSE ApplyNonFinalizedState(subs, unsubs,
                    [v \in DOMAIN requestedValidators |->
                        IF v \in DOMAIN validatorsCopy THEN validatorsCopy[v]
                        ELSE requestedValidators[v]])
    IN  [requestedValidators |-> requestedValidators,
         response |-> response,
         validators |-> st.validators]

\* handleMemoryValidatorInfo: the finalized endpoint, the oracle's record of
\* one validator or a bad request when it has none.
handleMemoryValidatorInfo(st, valIndex) ==
    IF valIndex \in Tracked(st)
    THEN [code |-> 200, validator |-> st.validators[valIndex]]
    ELSE [code |-> 400, validator |-> NewValidator(valIndex, Untracked, "")]

(***************************************************************************)
(* Leaves of a checkpoint (Merklelizer).  A leaf is an address and a        *)
(* balance.  The validators of the map are visited in an order the map     *)
(* decides (order); the pool's leaf comes first.                           *)
(***************************************************************************)
\* Position of an address in the ascending order of addresses.
AddressRank(address) ==
    CASE address = "0x00" -> 0
      [] address = "0x10" -> 1
      [] address = "0x20" -> 2
      [] address = "0x30" -> 3
      [] address = "0x40" -> 4
      [] address = "0x50" -> 5
      [] address = "0x60" -> 6
      [] address = "0x70" -> 7
      [] address = "0xaa" -> 8
      [] address = "0xab" -> 9
      [] address = "0xbb" -> 10
      [] OTHER -> 11

\* Variant: only the subscribed validators get a leaf.
RawLeavesSubscribedOnly(st, order) ==
    <<[address |-> st.poolAddress, balance |-> st.poolAccumulatedFees]>>
    \o [i \in 1..Len(SelectSeq(order, LAMBDA v : IsValidatorSubscribed(st, v))) |->
            [address |-> st.validators[
                            SelectSeq(order, LAMBDA v : IsValidatorSubscribed(st, v))[i]].withdrawal,
             balance |-> st.validators[
                            SelectSeq(order, LAMBDA v : IsValidatorSubscribed(st, v))[i]].accumulated]]

\* The pool's leaf and a leaf for each validator, in the order of the visit.
RawLeaves(st, order) ==
    <<[address |-> st.poolAddress, balance |-> st.poolAccumulatedFees]>>
    \o [i \in 1..Len(order) |->
            [address |-> st.validators[order[i]].withdrawal,
             balance |-> st.validators[order[i]].accumulated]]

\* Variant: every leaf is kept as it is, one for each validator.
RECURSIVE AggregateLeavesOnePerValidator(_, _)
AggregateLeavesOnePerValidator(leaves, allLeafs) ==
    IF leaves = <<>> THEN allLeafs
    ELSE AggregateLeavesOnePerValidator(Tail(leaves), Append(allLeafs, Head(leaves)))

\* Leaves grouped by address: the balance of a leaf is added to the leaf that
\* has its address, or the leaf is appended when there is none.
RECURSIVE AggregateLeaves(_, _)
AggregateLeaves(leaves, allLeafs) ==
    IF leaves = <<>> THEN allLeafs
    ELSE LET leaf == Head(leaves)
             found == {i \in DOMAIN allLeafs : allLeafs[i].address = leaf.address}
         IN  CHOOSE all \in
                {AggregateLeaves(rest, merged) :
                    rest \in {Tail(leaves)},
                    merged \in
                        {IF found # {}
                         THEN [i \in DOMAIN allLeafs |->
                                IF i \in found
                                THEN [allLeafs[i] EXCEPT !.balance = @ + leaf.balance]
                                ELSE allLeafs[i]]
                         ELSE Append(allLeafs, leaf)}} : TRUE

\* Variant: the leaves are left in the order they have.
OrderByDepositAddressKeepsOrder(leafs) == leafs

\* Merklelizer.OrderByDepositAddress(leafs): the leaves by ascending address.
RECURSIVE OrderByDepositAddress(_)
OrderByDepositAddress(leafs) ==
    IF leafs = <<>> THEN <<>>
    ELSE LET first == CHOOSE i \in DOMAIN leafs :
                        \A j \in DOMAIN leafs :
                            \/ AddressRank(leafs[i].address) < AddressRank(leafs[j].address)
                            \/ /\ AddressRank(leafs[i].address) = AddressRank(leafs[j].address)
                               /\ i <= j
         IN  CHOOSE ordered \in
                {<<leafs[first]>> \o OrderByDepositAddress(rest) :
                    rest \in {[k \in 1..(Len(leafs) - 1) |->
                                IF k < first THEN leafs[k] ELSE leafs[k + 1]]}} : TRUE

\* The orders in which the validators of a state can be visited.
VisitOrders(st) ==
    {order \in [1..Cardinality(Tracked(st)) -> Tracked(st)] :
        \A i, j \in DOMAIN order : i # j => order[i] # order[j]}

\* Merklelizer.AggregateValidatorsIndexes(state): the leaves of the state.
\* The validators of a state by ascending index.
IndexOrder(st) ==
    [i \in 1..Cardinality(Tracked(st)) |->
        CHOOSE v \in Tracked(st) : Cardinality({w \in Tracked(st) : w < v}) = i - 1]

\* Each stage is computed in full before the next one takes it.
AggregateValidatorsIndexes(st, order) ==
    CHOOSE leafs \in {OrderByDepositAddress(allLeafs) :
                        allLeafs \in {AggregateLeaves(rawLeafs, <<>>) :
                            rawLeafs \in {RawLeaves(st, order)}}} : TRUE

(***************************************************************************)
(* The Merkle tree over the leaves (Merklelizer.GenerateTreeFromState).    *)
(* A digest is written as the sequence of numbers that went into it, so    *)
(* two digests are equal exactly when their inputs are: the hash is an     *)
(* injective pairing.  A leaf digest starts with 0, the digest of an       *)
(* internal node with 1 and the length of its left input.                  *)
(***************************************************************************)
\* keccak256(abi.encode(address, balance))
LeafDigest(leaf) == <<0, AddressRank(leaf.address), leaf.balance>>

\* keccak256(concat(left, right))
NodeDigest(left, right) == <<1, Len(left)>> \o left \o right

\* The root of the tree without leaves: the all-zeros value.
ZeroRoot == <<0>>

LeafDigests(leafs) == [i \in DOMAIN leafs |-> LeafDigest(leafs[i])]

\* Variant: the last node of a level of odd count is paired with itself.
NextLevelDuplicatesLast(level) ==
    [k \in 1..((Len(level) + 1) \div 2) |->
        IF 2 * k <= Len(level) THEN NodeDigest(level[2 * k - 1], level[2 * k])
        ELSE NodeDigest(level[2 * k - 1], level[2 * k - 1])]

\* The level above a level: neighbours are paired, the last node of a level
\* of odd count is carried up as it is.
NextLevel(level) ==
    [k \in 1..((Len(level) + 1) \div 2) |->
        IF 2 * k <= Len(level) THEN NodeDigest(level[2 * k - 1], level[2 * k])
        ELSE level[2 * k - 1]]

\* The root of the tree over a level.
RECURSIVE MerkleRoot(_)
MerkleRoot(level) ==
    IF level = <<>> THEN ZeroRoot
    ELSE IF Len(level) = 1 THEN level[1]
    ELSE CHOOSE root \in {MerkleRoot(up) : up \in {NextLevel(level)}} : TRUE

\* The siblings on the way from node i of a level to the root, the sibling
\* next to the leaf first.  A node carried up has no sibling at its level.
RECURSIVE SiblingPath(_, _)
SiblingPath(level, i) ==
    IF Len(level) <= 1 THEN <<>>
    ELSE CHOOSE path \in
            {(IF i = Len(level) /\ i % 2 = 1 THEN <<>>
              ELSE <<(IF i % 2 = 1 THEN level[i + 1] ELSE level[i - 1])>>)
             \o SiblingPath(up, (i + 1) \div 2) : up \in {NextLevel(level)}} : TRUE

Reverse(q) == [k \in DOMAIN q |-> q[Len(q) + 1 - k]]

\* The proof stored for leaf i: its sibling path, the sibling under the root
\* first, the sibling of the leaf last.
ProofOf(level, i) == Reverse(SiblingPath(level, i))

\* The digest reached from a digest at position i of a level of the given
\* count by pairing it with the siblings given, the nearest first.
RECURSIVE FoldPath(_, _, _, _)
FoldPath(digest, count, i, siblings) ==
    IF count <= 1 THEN digest
    ELSE IF i = count /\ i % 2 = 1
         THEN FoldPath(digest, (count + 1) \div 2, (i + 1) \div 2, siblings)
         ELSE IF siblings = <<>> THEN digest
         ELSE FoldPath(IF i % 2 = 1 THEN NodeDigest(digest, Head(siblings))
                       ELSE NodeDigest(Head(siblings), digest),
                       (count + 1) \div 2, (i + 1) \div 2, Tail(siblings))

\* The root a stored proof yields for a leaf digest: the proof is walked from
\* its last entry, the sibling of the leaf, to its first.
VerifyProof(digest, count, i, proof) == FoldPath(digest, count, i, Reverse(proof))

\* Merklelizer.GenerateTreeFromState(state): the leaves, the root of their
\* tree and the proof of each leaf.
GenerateTreeFromState(st, order) ==
    CHOOSE tree \in
        {[leafs |-> leafs,
          root |-> MerkleRoot(LeafDigests(leafs)),
          proofs |-> [i \in DOMAIN leafs |-> ProofOf(LeafDigests(leafs), i)]] :
            leafs \in {AggregateValidatorsIndexes(st, order)}} : TRUE

(***************************************************************************)
(* Block handlers of the per-slot step.                                    *)
(***************************************************************************)
\* OracleState.HandleMissedBlock(block): record the miss, fire MissedProposal.
HandleMissedBlock(st, block) ==
    LET v == block.validatorIndex
        st1 == AdvanceStateMachine(st, v, MissedProposalEvent)
    IN  [st1 EXCEPT !.validators[v].missed = Append(@, block.slot)]

\* Variant: the proposer is subscribed anew whatever its record says.
HandleCorrectBlockProposalResubscribes(st, block) ==
    LET v == block.validatorIndex
        st1 == AddSubscriptionIfNotAlready(st, v, WithdrawalOf(v))
        st2 == [st1 EXCEPT !.validators[v].status = Active]
        st3 == IncreaseAllPendingRewards(st2, block.reward)
        st4 == ConsolidateBalance(st3, v)
    IN  [st4 EXCEPT !.validators[v].proposed = Append(@, block.slot)]

\* Variant: the slot is recorded only for a proposer that had a record already.
HandleCorrectBlockProposalRecordsTrackedOnly(st, block) ==
    LET v == block.validatorIndex
        st1 == AddSubscriptionIfNotAlready(st, v, WithdrawalOf(v))
        st2 == AdvanceStateMachine(st1, v, ProposalWithCorrectFee)
        st3 == IncreaseAllPendingRewards(st2, block.reward)
        st4 == ConsolidateBalance(st3, v)
    IN  IF v \in DOMAIN st.validators
        THEN [st4 EXCEPT !.validators[v].proposed = Append(@, block.slot)]
        ELSE st4

\* OracleState.HandleCorrectBlockProposal(block)
HandleCorrectBlockProposal(st, block) ==
    LET v == block.validatorIndex
        st1 == AddSubscriptionIfNotAlready(st, v, WithdrawalOf(v))
        st2 == AdvanceStateMachine(st1, v, ProposalWithCorrectFee)
        st3 == IncreaseAllPendingRewards(st2, block.reward)
        st4 == ConsolidateBalance(st3, v)
    IN  [st4 EXCEPT !.validators[v].proposed = Append(@, block.slot)]

\* Variant: the banned validator's pending balance is dropped, not shared out.
HandleBanValidatorNoShare(st, block) ==
    LET v == block.validatorIndex
        st1 == AdvanceStateMachine(st, v, ProposalWithWrongFee)
        st3 == ResetPendingRewards(st1, v)
    IN  [st3 EXCEPT !.validators[v].wrongFee = Append(@, block.slot)]

\* OracleState.HandleBanValidator(block)
HandleBanValidator(st, block) ==
    LET v == block.validatorIndex
        st1 == AdvanceStateMachine(st, v, ProposalWithWrongFee)
        st2 == IncreaseAllPendingRewards(st1, st1.validators[v].pending)
        st3 == ResetPendingRewards(st2, v)
    IN  [st3 EXCEPT !.validators[v].wrongFee = Append(@, block.slot)]

(***************************************************************************)
(* Oracle.AdvanceStateToNextSlot: the per-slot step.  The result holds the *)
(* new state, whether an error was returned, and the slot returned.        *)
(***************************************************************************)
\* Variant: the block of a slot that was already processed is accepted too.
validateParametersAcceptsProcessed(st, blockPool, blockSubs, blockUnsubs, blockDonations) ==
    blockPool.slot <= st.latestSlot

\* Oracle.validateParameters: TRUE when the parameters are accepted.
validateParameters(st, blockPool, blockSubs, blockUnsubs, blockDonations) ==
    blockPool.slot = st.latestSlot

\* Variant: the parameters are validated after the subscriptions are handled.
AdvanceStateToNextSlotLateValidation(st, blockPool, blockSubs, blockUnsubs, blockDonations) ==
    LET s1 == HandleManualSubscriptions(st, blockSubs)
    IN
    IF ~validateParameters(st, blockPool, blockSubs, blockUnsubs, blockDonations)
    THEN [state |-> s1, err |-> TRUE, processedSlot |-> 0]
    ELSE
    LET s2 == IF /\ blockPool.blockType = MissedProposal
                 /\ IsValidatorSubscribed(s1, blockPool.validatorIndex)
              THEN HandleMissedBlock(s1, blockPool) ELSE s1
        s3 == IF blockPool.blockType = OkPoolProposalBlsKeys
              THEN SendRewardToPool(s2, blockPool.reward) ELSE s2
        s4 == IF blockPool.blockType = OkPoolProposal
              THEN HandleCorrectBlockProposal(s3, blockPool) ELSE s3
        s5 == IF /\ blockPool.blockType = WrongFeeRecipient
                 /\ IsValidatorSubscribed(s4, blockPool.validatorIndex)
              THEN HandleBanValidator(s4, blockPool) ELSE s4
        s6 == HandleManualUnsubscriptions(s5, blockUnsubs)
        s7 == HandleDonations(s6, blockDonations)
    IN  [state |-> [s7 EXCEPT !.latestSlot = s7.latestSlot + 1],
         err |-> FALSE,
         processedSlot |-> s7.latestSlot]

\* Variant: a missed proposal is not handled (no record, no state-machine event).
AdvanceStateToNextSlotIgnoresMissed(st, blockPool, blockSubs, blockUnsubs, blockDonations) ==
    IF ~validateParameters(st, blockPool, blockSubs, blockUnsubs, blockDonations)
    THEN [state |-> st, err |-> TRUE, processedSlot |-> 0]
    ELSE
    LET s1 == HandleManualSubscriptions(st, blockSubs)
        s3 == IF blockPool.blockType = OkPoolProposalBlsKeys
              THEN SendRewardToPool(s1, blockPool.reward) ELSE s1
        s4 == IF blockPool.blockType = OkPoolProposal
              THEN HandleCorrectBlockProposal(s3, blockPool) ELSE s3
        s5 == IF /\ blockPool.blockType = WrongFeeRecipient
                 /\ IsValidatorSubscribed(s4, blockPool.validatorIndex)
              THEN HandleBanValidator(s4, blockPool) ELSE s4
        s6 == HandleManualUnsubscriptions(s5, blockUnsubs)
        s7 == HandleDonations(s6, blockDonations)
    IN  [state |-> [s7 EXCEPT !.latestSlot = s7.latestSlot + 1],
         err |-> FALSE,
         processedSlot |-> s7.latestSlot]

\* Variant: a call that repeats the block of the call before it is taken as
\* done already and applies nothing.
AdvanceStateToNextSlotSkipsRepeatedBlock(st, blockPool, blockSubs, blockUnsubs, blockDonations) ==
    IF ~validateParameters(st, blockPool, blockSubs, blockUnsubs, blockDonations)
    THEN [state |-> st, err |-> TRUE, processedSlot |-> 0]
    ELSE IF last.op = "AdvanceStateToNextSlot" /\ last.blockPool = blockPool
    THEN [state |-> [st EXCEPT !.latestSlot = st.latestSlot + 1],
          err |-> FALSE, processedSlot |-> st.latestSlot]
    ELSE
    LET s1 == HandleManualSubscriptions(st, blockSubs)
        s2 == IF /\ blockPool.blockType = MissedProposal
                 /\ IsValidatorSubscribed(s1, blockPool.validatorIndex)
              THEN HandleMissedBlock(s1, blockPool) ELSE s1
        s3 == IF blockPool.blockType = OkPoolProposalBlsKeys
              THEN SendRewardToPool(s2, blockPool.reward) ELSE s2
        s4 == IF blockPool.blockType = OkPoolProposal
              THEN HandleCorrectBlockProposal(s3, blockPool) ELSE s3
        s5 == IF /\ blockPool.blockType = WrongFeeRecipient
                 /\ IsValidatorSubscribed(s4, blockPool.validatorIndex)
              THEN HandleBanValidator(s4, blockPool) ELSE s4
        s6 == HandleManualUnsubscriptions(s5, blockUnsubs)
        s7 == HandleDonations(s6, blockDonations)
    IN  [state |-> [s7 EXCEPT !.latestSlot = s7.latestSlot + 1],
         err |-> FALSE,
         processedSlot |-> s7.latestSlot]

\* Variant: the subscriptions are handled after the block, with the unsubscriptions.
AdvanceStateToNextSlotSubscriptionsLast(st, blockPool, blockSubs, blockUnsubs, blockDonations) ==
    IF ~validateParameters(st, blockPool, blockSubs, blockUnsubs, blockDonations)
    THEN [state |-> st, err |-> TRUE, processedSlot |-> 0]
    ELSE
    LET s2 == IF /\ blockPool.blockType = MissedProposal
                 /\ IsValidatorSubscribed(st, blockPool.validatorIndex)
              THEN HandleMissedBlock(st, blockPool) ELSE st
        s3 == IF blockPool.blockType = OkPoolProposalBlsKeys
              THEN SendRewardToPool(s2, blockPool.reward) ELSE s2
        s4 == IF blockPool.blockType = OkPoolProposal
              THEN HandleCorrectBlockProposal(s3, blockPool) ELSE s3
        s5 == IF /\ blockPool.blockType = WrongFeeRecipient
                 /\ IsValidatorSubscribed(s4, blockPool.validatorIndex)
              THEN HandleBanValidator(s4, blockPool) ELSE s4
        s1 == HandleManualSubscriptions(s5, blockSubs)
        s6 == HandleManualUnsubscriptions(s1, blockUnsubs)
        s7 == HandleDonations(s6, blockDonations)
    IN  [state |-> [s7 EXCEPT !.latestSlot = s7.latestSlot + 1],
         err |-> FALSE,
         processedSlot |-> s7.latestSlot]

\* Variant: a block of a proposer with BLS credentials is handled as a correct proposal.
AdvanceStateToNextSlotBlsKeysEnrols(st, blockPool, blockSubs, blockUnsubs, blockDonations) ==
    IF ~validateParameters(st, blockPool, blockSubs, blockUnsubs, blockDonations)
    THEN [state |-> st, err |-> TRUE, processedSlot |-> 0]
    ELSE
    LET s1 == HandleManualSubscriptions(st, blockSubs)
        s2 == IF /\ blockPool.blockType = MissedProposal
                 /\ IsValidatorSubscribed(s1, blockPool.validatorIndex)
              THEN HandleMissedBlock(s1, blockPool) ELSE s1
        s4 == IF blockPool.blockType \in {OkPoolProposal, OkPoolProposalBlsKeys}
              THEN HandleCorrectBlockProposal(s2, blockPool) ELSE s2
        s5 == IF /\ blockPool.blockType = WrongFeeRecipient
                 /\ IsValidatorSubscribed(s4, blockPool.validatorIndex)
              THEN HandleBanValidator(s4, blockPool) ELSE s4
        s6 == HandleManualUnsubscriptions(s5, blockUnsubs)
        s7 == HandleDonations(s6, blockDonations)
    IN  [state |-> [s7 EXCEPT !.latestSlot = s7.latestSlot + 1],
         err |-> FALSE,
         processedSlot |-> s7.latestSlot]

AdvanceStateToNextSlot(st, blockPool, blockSubs, blockUnsubs, blockDonations) ==
    IF ~validateParameters(st, blockPool, blockSubs, blockUnsubs, blockDonations)
    THEN [state |-> st, err |-> TRUE, processedSlot |-> 0]
    ELSE
    LET s1 == HandleManualSubscriptions(st, blockSubs)
        s2 == IF /\ blockPool.blockType = MissedProposal
                 /\ IsValidatorSubscribed(s1, blockPool.validatorIndex)
              THEN HandleMissedBlock(s1, blockPool) ELSE s1
        s3 == IF blockPool.blockType = OkPoolProposalBlsKeys
              THEN SendRewardToPool(s2, blockPool.reward) ELSE s2
        s4 == IF blockPool.blockType = OkPoolProposal
              THEN HandleCorrectBlockProposal(s3, blockPool) ELSE s3
        s5 == IF /\ blockPool.blockType = WrongFeeRecipient
                 /\ IsValidatorSubscribed(s4, blockPool.validatorIndex)
              THEN HandleBanValidator(s4, blockPool) ELSE s4
        s6 == HandleManualUnsubscriptions(s5, blockUnsubs)
        s7 == HandleDonations(s6, blockDonations)
    IN  [state |-> [s7 EXCEPT !.latestSlot = s7.latestSlot + 1],
         err |-> FALSE,
         processedSlot |-> s7.latestSlot]

(***************************************************************************)
(* Inputs of one per-slot step.                                            *)
(***************************************************************************)
RECURSIVE SumSeq(_)
SumSeq(q) == IF q = <<>> THEN 0 ELSE Head(q) + SumSeq(Tail(q))

\* Subscribe events: the valid one of each validator, and one failing each
\* single requirement (sender, beacon status, collateral).
SubEvents ==
    UNION {{[validatorId |-> v, collateral |-> CollateralInWei,
             sender |-> WithdrawalOf(v), canSubscribe |-> TRUE],
            [validatorId |-> v, collateral |-> CollateralInWei,
             sender |-> OtherSender, canSubscribe |-> TRUE],
            [validatorId |-> v, collateral |-> CollateralInWei,
             sender |-> WithdrawalOf(v), canSubscribe |-> FALSE],
            [validatorId |-> v, collateral |-> LowCollateral,
             sender |-> WithdrawalOf(v), canSubscribe |-> TRUE]} : v \in Vals}

UnsubEvents ==
    UNION {{[validatorId |-> v, sender |-> a] : a \in {WithdrawalOf(v), OtherSender}} : v \in Vals}

\* The blocks the classifier can hand over for slot s.  A missed slot carries
\* no reward; a block that exists carries one.  OkPoolProposalBlsKeys is the
\* type of a block whose proposer has BLS withdrawal credentials, so it is a
\* validator the oracle holds no withdrawal address for.
BlocksAt(st, s) ==
    {b \in {[slot |-> s, blockType |-> t, validatorIndex |-> v,
             reward |-> IF t = MissedProposal THEN 0 ELSE BlockReward] :
                t \in BlockTypes, v \in Vals} :
        b.blockType = OkPoolProposalBlsKeys => b.validatorIndex \notin Tracked(st)}

\* The events of one block: none, or one event of one kind.
EventLists ==
    {[subs |-> <<>>, unsubs |-> <<>>, donations |-> <<>>]}
    \cup {[subs |-> <<e>>, unsubs |-> <<>>, donations |-> <<>>] : e \in SubEvents}
    \cup {[subs |-> <<>>, unsubs |-> <<e>>, donations |-> <<>>] : e \in UnsubEvents}
    \cup {[subs |-> <<>>, unsubs |-> <<>>, donations |-> <<d>>] : d \in DonationAmounts}

NoOp == [op |-> "none"]

\* What a run has been handed so far: the wei that came in, the slots the
\* accepted steps returned, the OkPoolProposal blocks of each proposer, and the
\* validators whose own withdrawal address sent a subscribe event meeting the
\* collateral bar.
GhostInit ==
    [rewards |-> 0, collateral |-> 0, donations |-> 0,
     processed |-> <<>>,
     okProposals |-> [v \in Vals |-> 0],
     barMet |-> {}]

(***************************************************************************)
(* Spec: the oracle driven through per-slot steps from its initial state.  *)
(***************************************************************************)
Init ==
    /\ state = InitialState
    /\ cfg \in [poolFeesPercent : PoolFeesPercents]
    /\ ghost = GhostInit
    /\ last = NoOp
    /\ pre = InitialState

\* One call of AdvanceStateToNextSlot with the given parameters.
Call(blockPool, blockSubs, blockUnsubs, blockDonations) ==
    \E res \in {AdvanceStateToNextSlot(state, blockPool, blockSubs, blockUnsubs, blockDonations)} :
        /\ state' = res.state
        /\ last' = [op |-> "AdvanceStateToNextSlot", err |-> res.err,
                    processedSlot |-> res.processedSlot,
                    slot |-> blockPool.slot,
                    blockType |-> blockPool.blockType,
                    proposer |-> blockPool.validatorIndex,
                    events |-> Len(blockSubs) + Len(blockUnsubs) + Len(blockDonations)]
        /\ ghost' = IF res.err THEN ghost
                    ELSE [rewards |-> ghost.rewards +
                             (IF blockPool.blockType \in {OkPoolProposal, OkPoolProposalBlsKeys}
                              THEN blockPool.reward ELSE 0),
                          collateral |-> ghost.collateral +
                             SumSeq([i \in DOMAIN blockSubs |-> blockSubs[i].collateral]),
                          donations |-> ghost.donations + SumSeq(blockDonations),
                          processed |-> Append(ghost.processed, res.processedSlot),
                          okProposals |-> [v \in Vals |->
                             IF blockPool.blockType = OkPoolProposal /\ v = blockPool.validatorIndex
                             THEN ghost.okProposals[v] + 1 ELSE ghost.okProposals[v]],
                          barMet |-> ghost.barMet \cup
                             {blockSubs[i].validatorId : i \in
                                {j \in DOMAIN blockSubs :
                                    /\ blockSubs[j].sender = WithdrawalOf(blockSubs[j].validatorId)
                                    /\ blockSubs[j].collateral >= CollateralInWei}}]
        /\ UNCHANGED <<cfg, pre>>

\* The driver stops at the first error a step returns (mainLoop: log.Fatal).
Running == ~(last.op = "AdvanceStateToNextSlot" /\ last.err)

\* The driver hands over the block of the latest slot.
Step ==
    /\ Running
    /\ state.latestSlot < DeployedSlot + MaxSlot
    /\ \E blockPool \in BlocksAt(state, state.latestSlot), ev \in EventLists :
        Call(blockPool, ev.subs, ev.unsubs, ev.donations)

\* A call with the block of another slot.
StepWrongSlot ==
    /\ Running
    /\ state.latestSlot < DeployedSlot + MaxSlot
    /\ \E blockPool \in BlocksAt(state, state.latestSlot + 1), ev \in EventLists :
        Call(blockPool, ev.subs, ev.unsubs, ev.donations)

\* A second call with the block of a slot that was already processed.
StepProcessedSlot ==
    /\ Running
    /\ state.latestSlot > DeployedSlot
    /\ state.latestSlot < DeployedSlot + MaxSlot
    /\ \E blockPool \in BlocksAt(state, state.latestSlot - 1), ev \in EventLists :
        Call(blockPool, ev.subs, ev.unsubs, ev.donations)

Next == Step \/ StepWrongSlot \/ StepProcessedSlot

Spec == Init /\ [][Next]_vars

(***************************************************************************)
(* Properties of the per-slot step (Spec).                                 *)
(***************************************************************************)
Stepped == last.op = "AdvanceStateToNextSlot"
Accepted == Stepped /\ ~last.err

\* C1: a validator that is Banned after some per-slot step is Banned after
\* every later step, whatever block and events the later steps carry.
C1_BannedIsAbsorbing ==
    [][\A v \in Vals : StatusOf(state, v) = Banned => StatusOf(state', v) = Banned]_vars

\* A validator banned at an earlier slot has since proposed a block that paid the pool.
C1_Witness ==
    /\ Accepted
    /\ last.blockType = OkPoolProposal
    /\ StatusOf(state, last.proposer) = Banned
    /\ Len(state.validators[last.proposer].wrongFee) > 0
    /\ Len(state.validators[last.proposer].proposed) > 0

\* C2 as stated: accumulated balances plus the pool's fees equal the block
\* rewards processed so far minus the rewards still pending.
C2_RewardsOnly ==
    SumAccumulated(state) + state.poolAccumulatedFees = ghost.rewards - SumPending(state)

\* C2 amended: accumulated balances plus the pool's fees equal the block
\* rewards, subscription collateral and donations processed so far minus the
\* rewards still pending; no step creates or destroys wei.
C2_WeiAccounted ==
    SumAccumulated(state) + state.poolAccumulatedFees
        = ghost.rewards + ghost.collateral + ghost.donations - SumPending(state)

\* Rewards, collateral and a donation have all come in, a validator was
\* banned, and some balance is still pending.
C2_Witness ==
    /\ Accepted
    /\ ghost.rewards > 0 /\ ghost.collateral > 0 /\ ghost.donations > 0
    /\ SumPending(state) > 0
    /\ SumAccumulated(state) > 0

\* C6 as stated: a subscribed validator v1 proposing a WrongFeeRecipient block
\* (no events in the block) ends Banned with nothing pending, the slot is
\* recorded in its wrong-fee list, no accumulated balance changes, and its
\* former pending balance P goes in full to the other subscribed validators:
\* floor(P / n) to each of the n others, the floor remainder to the pool.
C6_BanSharesPendingInFull ==
    [][ ( /\ last'.op = "AdvanceStateToNextSlot" /\ ~last'.err
          /\ last'.blockType = WrongFeeRecipient /\ last'.events = 0
          /\ IsValidatorSubscribed(state, last'.proposer) )
        => LET v1 == last'.proposer
               P == PendingOf(state, v1)
               others == SubscribedSet(state) \ {v1}
               n == Cardinality(others)
           IN  /\ StatusOf(state', v1) = Banned
               /\ PendingOf(state', v1) = 0
               /\ state'.validators[v1].wrongFee
                    = Append(state.validators[v1].wrongFee, last'.slot)
               /\ \A v \in Vals : AccumulatedOf(state', v) = AccumulatedOf(state, v)
               /\ n > 0 =>
                    /\ \A v \in others : PendingOf(state', v) = PendingOf(state, v) + (P \div n)
                    /\ state'.poolAccumulatedFees = state.poolAccumulatedFees + (P % n)
      ]_vars

\* C10: a call with a block of another slot than the latest returns an error
\* and leaves the whole oracle state as it was; a call with the block of the
\* latest slot returns no error.
C10_WrongSlotChangesNothing ==
    [][ last'.op = "AdvanceStateToNextSlot" =>
            IF last'.slot # state.latestSlot
            THEN last'.err /\ state' = state
            ELSE ~last'.err
      ]_vars

\* A call carrying an event was rejected after a slot had been processed.
C10_Witness ==
    /\ Stepped /\ last.err
    /\ last.slot # state.latestSlot
    /\ last.events > 0
    /\ state.latestSlot > DeployedSlot
    /\ Tracked(state) # {}

\* C11: an accepted step raises the latest slot by exactly one and returns the
\* slot it processed, the latest slot before the call; the slots returned over
\* a run are DeployedSlot, DeployedSlot + 1, ... without repeat or gap; and a
\* call with the block of an already processed slot is rejected and moves
\* nothing.
C11_SlotsConsecutive ==
    [][ last'.op = "AdvanceStateToNextSlot" =>
            IF last'.slot = state.latestSlot
            THEN /\ ~last'.err
                 /\ state'.latestSlot = state.latestSlot + 1
                 /\ last'.processedSlot = state.latestSlot
                 /\ ghost'.processed = [i \in 1..(Len(ghost.processed) + 1) |-> DeployedSlot + i - 1]
            ELSE /\ last'.err
                 /\ state'.latestSlot = state.latestSlot
                 /\ ghost'.processed = ghost.processed
      ]_vars

\* After slots were processed, a call with the block of a processed slot was rejected.
C11_Witness ==
    /\ Stepped /\ last.err
    /\ last.slot < state.latestSlot
    /\ Len(ghost.processed) >= 1
    /\ last.slot = ghost.processed[Len(ghost.processed)]

\* C15: the proposed-blocks list of every validator has as many entries as
\* OkPoolProposal blocks of that proposer were processed; blocks of the other
\* three types add none.
C15_ProposedCountsOkProposals ==
    \A v \in Vals :
        (IF v \in Tracked(state) THEN Len(state.validators[v].proposed) ELSE 0)
            = ghost.okProposals[v]

\* A validator proposed an OkPoolProposal block and then a WrongFeeRecipient one.
C15_Witness ==
    /\ Accepted
    /\ last.blockType = WrongFeeRecipient
    /\ ghost.okProposals[last.proposer] = 1
    /\ Len(state.validators[last.proposer].proposed) = 1
    /\ Len(state.validators[last.proposer].wrongFee) = 1

\* C19 as stated: a validator is Active, YellowCard or RedCard only if its own
\* withdrawal address has sent a subscribe event with at least the configured
\* collateral; proposing an OkPoolProposal block does not subscribe it.
C19_SubscribedOnlyByCollateral ==
    \A v \in Vals : IsValidatorSubscribed(state, v) => v \in ghost.barMet

\* C36: after any sequence of accepted steps, the pending balances, the
\* accumulated balances and the pool's fees add up to the rewards of the
\* processed OkPoolProposal and OkPoolProposalBlsKeys blocks plus the
\* collateral of the processed subscribe events plus the processed donations;
\* a ban or an unsubscription zeroes a pending balance without losing it.
C36_WeiConserved ==
    SumPending(state) + SumAccumulated(state) + state.poolAccumulatedFees
        = ghost.rewards + ghost.collateral + ghost.donations

\* A validator that had subscribed with collateral is now Banned or
\* NotSubscribed with nothing pending, by the ban or the unsubscribe event of
\* the last step, and rewards have come in.
C36_Witness ==
    /\ Accepted
    /\ ghost.rewards > 0
    /\ \E v \in ghost.barMet :
          /\ StatusOf(state, v) \in {Banned, NotSubscribed}
          /\ PendingOf(state, v) = 0
          /\ \/ last.blockType = WrongFeeRecipient /\ last.proposer = v
             \/ last.events > 0 /\ StatusOf(state, v) = NotSubscribed

(***************************************************************************)
(* SpecLedger: one ledger operation applied to a drawn oracle state.       *)
(* A drawn state gives every validator a status and balances; a validator  *)
(* that is not subscribed has nothing pending, an Untracked one no record. *)
(***************************************************************************)
DrawnValidators ==
    {[status |-> s, pending |-> p, accumulated |-> a] :
        s \in SubscribedStatuses, p \in PendingBalances, a \in AccumulatedBalances}
    \cup {[status |-> s, pending |-> 0, accumulated |-> a] :
        s \in {NotSubscribed, Banned, Untracked}, a \in AccumulatedBalances}

LedgerState(draw) ==
    [InitialState EXCEPT
        !.validators = [v \in {x \in Vals : draw[x].status # Untracked} |->
            [NewValidator(v, draw[v].status, WithdrawalOf(v)) EXCEPT
                !.pending = draw[v].pending,
                !.accumulated = draw[v].accumulated]]]

LedgerInit ==
    /\ \E draw \in [Vals -> DrawnValidators] : state = LedgerState(draw)
    /\ cfg \in [poolFeesPercent : PoolFeesPercents]
    /\ ghost = GhostInit
    /\ last = NoOp
    /\ pre = state

DoIncreaseAllPendingRewards ==
    /\ last = NoOp
    /\ \E totalAmount \in LedgerAmounts :
        /\ state' = IncreaseAllPendingRewards(state, totalAmount)
        /\ last' = [op |-> "IncreaseAllPendingRewards", amount |-> totalAmount]
    /\ pre' = state
    /\ UNCHANGED <<cfg, ghost>>

DoConsolidateBalance ==
    /\ last = NoOp
    /\ \E v \in Tracked(state) :
        /\ state' = ConsolidateBalance(state, v)
        /\ last' = [op |-> "ConsolidateBalance", valIndex |-> v]
    /\ pre' = state
    /\ UNCHANGED <<cfg, ghost>>

LedgerNext == DoIncreaseAllPendingRewards \/ DoConsolidateBalance

SpecLedger == LedgerInit /\ [][LedgerNext]_vars

\* C3: one call of IncreaseAllPendingRewards(R) raises the pending balances
\* and the pool's fees by R in total, for every R and every subscribed set.
C3_IncreaseDistributesExactlyR ==
    last.op = "IncreaseAllPendingRewards" =>
        (SumPending(state) - SumPending(pre))
          + (state.poolAccumulatedFees - pre.poolAccumulatedFees) = last.amount

\* Two subscribers shared an amount that left a floor remainder and a pool cut.
C3_Witness ==
    /\ last.op = "IncreaseAllPendingRewards"
    /\ Cardinality(SubscribedSet(pre)) >= 2
    /\ cfg.poolFeesPercent > 0
    /\ (last.amount * cfg.poolFeesPercent) \div 100 > 0
    /\ (last.amount - (last.amount * cfg.poolFeesPercent) \div 100)
            % Cardinality(SubscribedSet(pre)) > 0

\* C4: IncreaseAllPendingRewards(totalAmount) adds floor(R / |S|) to the
\* pending balance of each Active, YellowCard or RedCard validator, adds
\* poolCut + (R mod |S|) to the pool's fees and leaves every other validator's
\* pending balance alone; with no subscriber the whole amount goes to the pool.
C4_IncreaseSharesAndPoolCut ==
    last.op = "IncreaseAllPendingRewards" =>
        LET S == {v \in Vals : StatusOf(pre, v) \in {Active, YellowCard, RedCard}}
            n == Cardinality(S)
            poolCut == (last.amount * cfg.poolFeesPercent) \div 100
            R == last.amount - poolCut
        IN  /\ Tracked(state) = Tracked(pre)
            /\ \A v \in Vals \ S : PendingOf(state, v) = PendingOf(pre, v)
            /\ IF n = 0
               THEN state.poolAccumulatedFees = pre.poolAccumulatedFees + last.amount
               ELSE /\ \A v \in S : PendingOf(state, v) = PendingOf(pre, v) + (R \div n)
                    /\ state.poolAccumulatedFees = pre.poolAccumulatedFees + poolCut + (R % n)

\* A subscriber was paid beside a tracked validator that is not subscribed.
C4_Witness ==
    /\ last.op = "IncreaseAllPendingRewards"
    /\ last.amount > 0
    /\ \E v \in Tracked(pre), w \in Tracked(pre) :
        /\ StatusOf(pre, v) \in SubscribedStatuses
        /\ StatusOf(pre, w) = NotSubscribed
        /\ PendingOf(state, v) > PendingOf(pre, v)

\* C5: ConsolidateBalance(v) moves all of v's pending balance into its
\* accumulated balance and changes nothing else: no other validator, no
\* status, not the pool's fees.
C5_ConsolidateMovesPending ==
    last.op = "ConsolidateBalance" =>
        LET v == last.valIndex
        IN  /\ AccumulatedOf(state, v) = AccumulatedOf(pre, v) + PendingOf(pre, v)
            /\ PendingOf(state, v) = 0
            /\ state = [pre EXCEPT !.validators[v].accumulated = AccumulatedOf(state, v),
                                   !.validators[v].pending = 0]

\* A validator with both balances non-zero was consolidated beside another validator.
C5_Witness ==
    /\ last.op = "ConsolidateBalance"
    /\ PendingOf(pre, last.valIndex) > 0
    /\ AccumulatedOf(pre, last.valIndex) > 0
    /\ \E w \in Tracked(pre) \ {last.valIndex} : PendingOf(pre, w) > 0

(***************************************************************************)
(* SpecStep: one per-slot step taken from a drawn oracle state, with its   *)
(* parameters recorded, and then replayed on the state it started from.    *)
(***************************************************************************)
StepDrawnValidators ==
    {[status |-> s, pending |-> 100, accumulated |-> 77] : s \in SubscribedStatuses}
    \cup {[status |-> s, pending |-> 0, accumulated |-> 77] : s \in {NotSubscribed, Banned}}
    \cup {[status |-> Untracked, pending |-> 0, accumulated |-> 0]}

\* The blocks of the latest slot; a correct proposal carries one of two rewards.
StepBlocks(st) ==
    BlocksAt(st, st.latestSlot)
    \cup {[b EXCEPT !.reward = 10000] :
            b \in {x \in BlocksAt(st, st.latestSlot) : x.blockType = OkPoolProposal}}

StepInit ==
    /\ \E draw \in [Vals -> StepDrawnValidators] : state = LedgerState(draw)
    /\ cfg \in [poolFeesPercent : PoolFeesPercents]
    /\ ghost = GhostInit
    /\ last = NoOp
    /\ pre = state

DoAdvanceStateToNextSlot ==
    /\ last = NoOp
    /\ \E blockPool \in StepBlocks(state), ev \in EventLists :
        \E res \in {AdvanceStateToNextSlot(state, blockPool, ev.subs, ev.unsubs, ev.donations)} :
            /\ state' = res.state
            /\ last' = [op |-> "AdvanceStateToNextSlot", err |-> res.err,
                        processedSlot |-> res.processedSlot,
                        blockPool |-> blockPool, blockSubs |-> ev.subs,
                        blockUnsubs |-> ev.unsubs, blockDonations |-> ev.donations,
                        result |-> res.state, replays |-> 0]
    /\ pre' = state
    /\ UNCHANGED <<cfg, ghost>>

\* The state is put back to the one the step started from and the step is
\* run again with the same block and events.
DoReplay ==
    /\ last.op = "AdvanceStateToNextSlot"
    /\ last.replays < MaxReplays
    /\ state' = AdvanceStateToNextSlot(pre, last.blockPool, last.blockSubs,
                                        last.blockUnsubs, last.blockDonations).state
    /\ last' = [last EXCEPT !.replays = @ + 1]
    /\ UNCHANGED <<cfg, ghost, pre>>

StepNext == DoAdvanceStateToNextSlot \/ DoReplay

SpecStep == StepInit /\ [][StepNext]_vars

\* The leaves of a state, its validators visited by ascending index.
LeavesOf(st) == AggregateValidatorsIndexes(st, IndexOrder(st))

\* The balance of the leaf of an address among the leaves of a state, zero
\* when the address has no leaf (handleOnchainMerkleProof: leafs.AccumulatedBalance).
LeafBalanceOf(leafs, address) ==
    LET found == {i \in DOMAIN leafs : leafs[i].address = address}
    IN  IF found = {} THEN 0 ELSE leafs[CHOOSE i \in found : TRUE].balance

\* handleOnchainMerkleProof: ClaimableRewardsWei of a leaf balance and the
\* amount already claimed.
ClaimableRewardsWei(leafBalance, claimed) == leafBalance - claimed

C13_EverySubscriberShares ==
    ( /\ last.op = "AdvanceStateToNextSlot"
      /\ last.blockPool.blockType = OkPoolProposal
      /\ Len(last.blockSubs) = 1
      /\ last.blockSubs[1].sender = WithdrawalOf(last.blockSubs[1].validatorId)
      /\ last.blockSubs[1].canSubscribe
      /\ last.blockSubs[1].collateral >= CollateralInWei )
    => LET sub == last.blockSubs[1]
           v == sub.validatorId
           p == last.blockPool.validatorIndex
           S == {x \in Vals : \/ x = v
                              \/ StatusOf(pre, x) \in {Active, YellowCard, RedCard}
                              \/ (x = p /\ StatusOf(pre, p) # Banned)}
           poolCut == (last.blockPool.reward * cfg.poolFeesPercent) \div 100
           share == (last.blockPool.reward - poolCut) \div Cardinality(S)
       IN  /\ StatusOf(state, v) \in {Active, YellowCard, RedCard}
           /\ IF v = p
              THEN /\ PendingOf(state, v) = 0
                   /\ AccumulatedOf(state, v)
                        = AccumulatedOf(pre, v) + PendingOf(pre, v) + sub.collateral + share
              ELSE /\ PendingOf(state, v) = PendingOf(pre, v) + sub.collateral + share
                   /\ AccumulatedOf(state, v) = AccumulatedOf(pre, v)

\* C13 amended: the same for a validator that is not Banned, a Banned one
\* staying Banned and outside S whatever it sends.
C13_SubscriptionsBeforeReward ==
    ( /\ last.op = "AdvanceStateToNextSlot"
      /\ last.blockPool.blockType = OkPoolProposal
      /\ Len(last.blockSubs) = 1
      /\ last.blockSubs[1].sender = WithdrawalOf(last.blockSubs[1].validatorId)
      /\ last.blockSubs[1].canSubscribe
      /\ last.blockSubs[1].collateral >= CollateralInWei
      /\ StatusOf(pre, last.blockSubs[1].validatorId) # Banned )
    => LET sub == last.blockSubs[1]
           v == sub.validatorId
           p == last.blockPool.validatorIndex
           S == {x \in Vals : \/ x = v
                              \/ StatusOf(pre, x) \in {Active, YellowCard, RedCard}
                              \/ (x = p /\ StatusOf(pre, p) # Banned)}
           poolCut == (last.blockPool.reward * cfg.poolFeesPercent) \div 100
           share == (last.blockPool.reward - poolCut) \div Cardinality(S)
       IN  /\ StatusOf(state, v) \in {Active, YellowCard, RedCard}
           /\ IF v = p
              THEN /\ PendingOf(state, v) = 0
                   /\ AccumulatedOf(state, v)
                        = AccumulatedOf(pre, v) + PendingOf(pre, v) + sub.collateral + share
              ELSE /\ PendingOf(state, v) = PendingOf(pre, v) + sub.collateral + share
                   /\ AccumulatedOf(state, v) = AccumulatedOf(pre, v)
           /\ ( /\ v = p /\ Tracked(pre) = {}
                /\ cfg.poolFeesPercent = 0
                /\ sub.collateral = 1000 /\ last.blockPool.reward = 10000 )
              => /\ PendingOf(state, v) = 0
                 /\ AccumulatedOf(state, v) = 11000
                 /\ state.poolAccumulatedFees = 0
                 /\ StatusOf(state, v) = Active

\* A validator without a record subscribed in the block that another,
\* subscribed validator proposed, and holds its collateral and its share.
C13_Witness ==
    /\ last.op = "AdvanceStateToNextSlot"
    /\ last.blockPool.blockType = OkPoolProposal
    /\ Len(last.blockSubs) = 1
    /\ LET v == last.blockSubs[1].validatorId
       IN  /\ v # last.blockPool.validatorIndex
           /\ v \notin Tracked(pre)
           /\ StatusOf(pre, last.blockPool.validatorIndex) = Active
           /\ StatusOf(state, v) = Active
           /\ PendingOf(state, v) > last.blockSubs[1].collateral

\* C14 as stated: a validator u subscribed at the start of slot s whose valid
\* unsubscribe event is in the block of slot s is counted in the set S that
\* slot s's OkPoolProposal reward is shared over, and the share floor(R / |S|)
\* credited to it in slot s is still its own after the step.
C14_UnsubscriberKeepsShare ==
    ( /\ last.op = "AdvanceStateToNextSlot"
      /\ last.blockPool.blockType = OkPoolProposal
      /\ Len(last.blockUnsubs) = 1
      /\ last.blockUnsubs[1].sender = WithdrawalOf(last.blockUnsubs[1].validatorId)
      /\ StatusOf(pre, last.blockUnsubs[1].validatorId) \in {Active, YellowCard, RedCard} )
    => LET u == last.blockUnsubs[1].validatorId
           p == last.blockPool.validatorIndex
           S == {x \in Vals : \/ StatusOf(pre, x) \in {Active, YellowCard, RedCard}
                              \/ (x = p /\ StatusOf(pre, p) # Banned)}
           poolCut == (last.blockPool.reward * cfg.poolFeesPercent) \div 100
           share == (last.blockPool.reward - poolCut) \div Cardinality(S)
       IN  /\ u \in S
           /\ StatusOf(pre, p) # Banned =>
                AccumulatedOf(state, p) = AccumulatedOf(pre, p) + PendingOf(pre, p) + share
           /\ AccumulatedOf(state, u) + PendingOf(state, u) >= AccumulatedOf(pre, u) + share

\* C20: a step whose block is OkPoolProposalBlsKeys adds the block's reward to
\* the pool's fees and does nothing else because of the block: with no event
\* in the block only the pool's fees and the latest slot change; with events,
\* the proposer gets no record unless it subscribes itself, the pool's fees
\* rise by the reward beside what the events send there, and no proposed,
\* missed or wrong-fee list gains an entry.
C20_BlsKeysRewardToPoolOnly ==
    ( /\ last.op = "AdvanceStateToNextSlot"
      /\ last.blockPool.blockType = OkPoolProposalBlsKeys )
    => LET p == last.blockPool.validatorIndex
           events == HandleDonations(
                        HandleManualUnsubscriptions(
                            HandleManualSubscriptions(pre, last.blockSubs),
                            last.blockUnsubs),
                        last.blockDonations)
           noEvents == Len(last.blockSubs) + Len(last.blockUnsubs) + Len(last.blockDonations) = 0
       IN  /\ noEvents =>
                state = [pre EXCEPT !.poolAccumulatedFees = @ + last.blockPool.reward,
                                    !.latestSlot = @ + 1]
           /\ state.validators = events.validators
           /\ state.poolAccumulatedFees = events.poolAccumulatedFees + last.blockPool.reward
           /\ (\A i \in DOMAIN last.blockSubs : last.blockSubs[i].validatorId # p)
                => p \notin Tracked(state)
           /\ \A v \in Tracked(state) :
                /\ state.validators[v].proposed
                     = (IF v \in Tracked(pre) THEN pre.validators[v].proposed ELSE <<>>)
                /\ state.validators[v].missed
                     = (IF v \in Tracked(pre) THEN pre.validators[v].missed ELSE <<>>)
                /\ state.validators[v].wrongFee
                     = (IF v \in Tracked(pre) THEN pre.validators[v].wrongFee ELSE <<>>)

\* A proposer without a record proposed a BLS-keys block beside a subscribed
\* validator with a pending balance.
C20_Witness ==
    /\ last.op = "AdvanceStateToNextSlot"
    /\ last.blockPool.blockType = OkPoolProposalBlsKeys
    /\ last.blockPool.reward > 0
    /\ last.blockPool.validatorIndex \notin Tracked(state)
    /\ \E w \in Tracked(pre) : StatusOf(pre, w) = Active /\ PendingOf(pre, w) > 0
    /\ state.poolAccumulatedFees = pre.poolAccumulatedFees + last.blockPool.reward

(***************************************************************************)
(* SpecSubs: one call of a subscription handler on a drawn oracle state:   *)
(* the subscriptions or the unsubscriptions of a finalized block, or the   *)
(* overlay of the API over events that are not finalized yet.              *)
(***************************************************************************)
\* Unsubscribe events: from the validator's own address, from an address no
\* validator has, and from the address of any validator.
SubsUnsubEvents ==
    UnsubEvents \cup {[validatorId |-> v, sender |-> WithdrawalOf(w)] : v, w \in Vals}

OverlaySubEvents ==
    UNION {{[validatorId |-> v, collateral |-> c, sender |-> a,
             canSubscribe |-> b, blockNumber |-> n, logIndex |-> 0] :
                c \in {CollateralInWei, LowCollateral},
                a \in {SenderOf(v), OtherSender},
                b \in BOOLEAN, n \in {1, 2}} : v \in Vals}

OverlayUnsubEvents ==
    UNION {{[validatorId |-> v, sender |-> a, blockNumber |-> n, logIndex |-> 0] :
                a \in {SenderOf(w) : w \in Vals} \cup {OtherSender},
                n \in {1, 2}} : v \in Vals}

\* A subscription that meets the collateral and an unsubscription.
OverlayEventPairs ==
    {[subs |-> <<[e EXCEPT !.logIndex = i]>>,
            unsubs |-> <<[f EXCEPT !.logIndex = 1 - i]>>] :
            e \in {x \in OverlaySubEvents : x.collateral = CollateralInWei /\ x.canSubscribe},
            f \in OverlayUnsubEvents, i \in {0, 1}}

\* The events between the latest processed block and the head: one
\* subscription, one unsubscription, or one of each for one validator, either
\* of the two being the one emitted first (Raw.Index, the lower index is
\* emitted first).
OverlayEventLists ==
    {[subs |-> <<e>>, unsubs |-> <<>>] : e \in OverlaySubEvents}
    \cup {[subs |-> <<>>, unsubs |-> <<e>>] : e \in OverlayUnsubEvents}
    \cup {ev \in OverlayEventPairs : ev.subs[1].validatorId = ev.unsubs[1].validatorId}

\* The map the overlay's tests hand to ApplyNonFinalizedState: a record of
\* every validator, whatever its withdrawal address.
AllValidators(st) ==
    [v \in Vals |-> IF v \in Tracked(st) THEN st.validators[v]
                    ELSE NewValidator(v, Untracked, WithdrawalOf(v))]

DoHandleManualSubscriptions ==
    /\ last = NoOp
    /\ \E sub \in SubEvents :
        /\ state' = HandleManualSubscriptions(state, <<sub>>)
        /\ last' = [op |-> "HandleManualSubscriptions", sub |-> sub]
    /\ pre' = state
    /\ UNCHANGED <<cfg, ghost>>

DoHandleManualUnsubscriptions ==
    /\ last = NoOp
    /\ \E unsub \in SubsUnsubEvents :
        /\ state' = HandleManualUnsubscriptions(state, <<unsub>>)
        /\ last' = [op |-> "HandleManualUnsubscriptions", unsub |-> unsub]
    /\ pre' = state
    /\ UNCHANGED <<cfg, ghost>>

\* A query of the validators of one withdrawal address: the overlay is built
\* over the events up to the head and answered.
DoApplyNonFinalizedState ==
    /\ last = NoOp
    /\ \E withdrawalAddress \in {WithdrawalOf(v) : v \in Vals}, ev \in OverlayEventLists :
        \E res \in {handleMemoryValidatorsByWithdrawal(state, withdrawalAddress,
                                                       ev.subs, ev.unsubs)} :
            /\ state' = [state EXCEPT !.validators = res.validators]
            /\ last' = [op |-> "ApplyNonFinalizedState",
                        query |-> withdrawalAddress, queries |-> 1,
                        subs |-> ev.subs, unsubs |-> ev.unsubs,
                        before |-> res.requestedValidators,
                        after |-> res.response]
    /\ pre' = state
    /\ UNCHANGED <<cfg, ghost>>

\* The same query is answered once more, the head not having moved.
DoQueryAgain ==
    /\ last.op = "ApplyNonFinalizedState"
    /\ last.query # "none"
    /\ last.queries < MaxQueries
    /\ \E res \in {handleMemoryValidatorsByWithdrawal(state, last.query,
                                                       last.subs, last.unsubs)} :
            /\ state' = [state EXCEPT !.validators = res.validators]
            /\ last' = [last EXCEPT !.queries = @ + 1,
                                    !.before = res.requestedValidators,
                                    !.after = res.response]
    /\ UNCHANGED <<cfg, ghost, pre>>

\* ApplyNonFinalizedState called on a map of all validators, outside a query.
DoApplyNonFinalizedStateToMap ==
    /\ last = NoOp
    /\ \E ev \in OverlayEventLists :
        last' = [op |-> "ApplyNonFinalizedState",
                 query |-> "none", queries |-> 0,
                 subs |-> ev.subs, unsubs |-> ev.unsubs,
                 before |-> AllValidators(state),
                 after |-> ApplyNonFinalizedState(ev.subs, ev.unsubs, AllValidators(state))]
    /\ pre' = state
    /\ UNCHANGED <<state, cfg, ghost>>

SubsNext ==
    \/ DoHandleManualSubscriptions
    \/ DoHandleManualUnsubscriptions
    \/ DoApplyNonFinalizedState
    \/ DoQueryAgain
    \/ DoApplyNonFinalizedStateToMap

SpecSubs == StepInit /\ [][SubsNext]_vars

\* C16 as stated: a subscribe event that meets the three requirements (sender
\* is the validator's withdrawal address, the beacon validator can still
\* subscribe, collateral at least the configured one) takes Untracked and
\* NotSubscribed to Active, leaves Active, YellowCard, RedCard and Banned as
\* they are, and adds exactly the collateral to the validator's pending
\* balance, the accumulated balance staying as it was; in a finalized block
\* and in the overlay alike.
C16_ValidSubscribeAddsCollateral ==
    /\ ( /\ last.op = "HandleManualSubscriptions"
         /\ last.sub.sender = WithdrawalOf(last.sub.validatorId)
         /\ last.sub.canSubscribe
         /\ last.sub.collateral >= CollateralInWei )
       => LET v == last.sub.validatorId
          IN  /\ StatusOf(state, v)
                   = (IF StatusOf(pre, v) \in {Untracked, NotSubscribed}
                      THEN Active ELSE StatusOf(pre, v))
              /\ PendingOf(state, v) = PendingOf(pre, v) + last.sub.collateral
              /\ AccumulatedOf(state, v) = AccumulatedOf(pre, v)
    /\ ( /\ last.op = "ApplyNonFinalizedState"
         /\ Len(last.subs) = 1 /\ Len(last.unsubs) = 0
         /\ last.subs[1].validatorId \in DOMAIN last.before
         /\ last.subs[1].sender = SenderOf(last.subs[1].validatorId)
         /\ last.subs[1].canSubscribe
         /\ last.subs[1].collateral >= CollateralInWei )
       => LET v == last.subs[1].validatorId
          IN  /\ last.after[v].status
                   = (IF last.before[v].status \in {Untracked, NotSubscribed}
                      THEN Active ELSE last.before[v].status)
              /\ last.after[v].pending = last.before[v].pending + last.subs[1].collateral
              /\ last.after[v].accumulated = last.before[v].accumulated

\* C17: a subscribe event of a finalized block that fails a requirement (wrong
\* sender, a beacon validator that can no longer subscribe, or too little
\* collateral) changes no status and no balance, creates no record, and
\* raises the pool's fees by exactly its collateral.
C17_FailedSubscribePaysPool ==
    ( /\ last.op = "HandleManualSubscriptions"
      /\ \/ last.sub.sender # WithdrawalOf(last.sub.validatorId)
         \/ ~last.sub.canSubscribe
         \/ last.sub.collateral < CollateralInWei )
    => /\ state.validators = pre.validators
       /\ Tracked(state) = Tracked(pre)
       /\ state.poolAccumulatedFees = pre.poolAccumulatedFees + last.sub.collateral
       /\ state = [pre EXCEPT !.poolAccumulatedFees = @ + last.sub.collateral]

\* A validator without a record sent too little collateral and has no record still.
C17_Witness ==
    /\ last.op = "HandleManualSubscriptions"
    /\ last.sub.collateral = LowCollateral
    /\ last.sub.sender = WithdrawalOf(last.sub.validatorId)
    /\ last.sub.canSubscribe
    /\ last.sub.validatorId \notin Tracked(state)
    /\ state.poolAccumulatedFees = pre.poolAccumulatedFees + LowCollateral
    /\ \E w \in Tracked(pre) : PendingOf(pre, w) > 0

\* C18: an unsubscribe event takes effect only when its sender is the
\* validator's withdrawal address and the validator is Active, YellowCard or
\* RedCard: the status becomes NotSubscribed, the pending balance 0, the
\* accumulated balance stays.  From any other sender, for an index that is not
\* the sender's validator, or for a validator that is not subscribed (Banned
\* included) status and pending stay as they were; in a finalized block and in
\* the overlay alike.
C18_UnsubscribeRules ==
    /\ last.op = "HandleManualUnsubscriptions" =>
         LET u == last.unsub.validatorId
         IN  IF /\ last.unsub.sender = WithdrawalOf(u)
                /\ StatusOf(pre, u) \in {Active, YellowCard, RedCard}
             THEN /\ StatusOf(state, u) = NotSubscribed
                  /\ PendingOf(state, u) = 0
                  /\ AccumulatedOf(state, u) = AccumulatedOf(pre, u)
             ELSE \A v \in Vals : /\ StatusOf(state, v) = StatusOf(pre, v)
                                  /\ PendingOf(state, v) = PendingOf(pre, v)
    /\ ( /\ last.op = "ApplyNonFinalizedState"
         /\ Len(last.subs) = 0 /\ Len(last.unsubs) = 1 ) =>
         LET u == last.unsubs[1].validatorId
         IN  IF /\ u \in DOMAIN last.before
                /\ last.unsubs[1].sender = SenderOf(u)
                /\ last.before[u].status \in {Active, YellowCard, RedCard}
             THEN /\ last.after[u].status = NotSubscribed
                  /\ last.after[u].pending = 0
                  /\ last.after[u].accumulated = last.before[u].accumulated
                  /\ \A v \in DOMAIN last.before \ {u} : last.after[v] = last.before[v]
             ELSE last.after = last.before

\* In the overlay an Active validator with a pending balance unsubscribed.
C18_Witness ==
    /\ last.op = "ApplyNonFinalizedState"
    /\ Len(last.subs) = 0 /\ Len(last.unsubs) = 1
    /\ LET u == last.unsubs[1].validatorId
       IN  /\ u \in DOMAIN last.before
           /\ last.before[u].status = Active
           /\ last.before[u].pending > 0
           /\ last.after[u].status = NotSubscribed
           /\ last.after[u].pending = 0
           /\ last.after[u].accumulated > 0

NamedByEvents(subs, unsubs) ==
    {subs[i].validatorId : i \in DOMAIN subs}
    \cup {unsubs[i].validatorId : i \in DOMAIN unsubs}

\* C22: ApplyNonFinalizedState changes nothing but the status and the pending
\* balance of validators of the map it is given: the accumulated balance, the
\* collateral, the withdrawal address and the block lists of every record stay,
\* the map keeps its entries, a validator that no event names keeps its whole
\* record, and the pool's fees stay as they were.
C22_OverlayChangesStatusAndPendingOnly ==
    last.op = "ApplyNonFinalizedState" =>
        /\ DOMAIN last.after = DOMAIN last.before
        /\ \A v \in DOMAIN last.before :
            /\ last.after[v] = [last.before[v] EXCEPT !.status = last.after[v].status,
                                                      !.pending = last.after[v].pending]
            /\ v \notin NamedByEvents(last.subs, last.unsubs)
                    => last.after[v] = last.before[v]
        /\ state.poolAccumulatedFees = pre.poolAccumulatedFees
        /\ state.donations = pre.donations

\* In a map of two validators one subscribed and kept its accumulated
\* balance, the other, which no event names, kept its pending balance.
C22_Witness ==
    /\ last.op = "ApplyNonFinalizedState"
    /\ \E v, w \in DOMAIN last.before :
        /\ v # w
        /\ NamedByEvents(last.subs, last.unsubs) = {v}
        /\ last.before[v].status = NotSubscribed
        /\ last.after[v].status = Active
        /\ last.after[v].pending = last.before[v].pending + CollateralInWei
        /\ last.after[v].accumulated > 0
        /\ last.before[w].pending > 0
        /\ last.after[w] = last.before[w]

\* Whether event e comes before event f: by block number, and in one block by
\* the order of emission.
EmittedBefore(e, f) ==
    \/ e.blockNumber < f.blockNumber
    \/ e.blockNumber = f.blockNumber /\ e.logIndex < f.logIndex

\* C23 as stated: a subscription and an unsubscription are applied one after
\* the other by block number and, in one block, by order of emission; so the
\* statuses and pending balances the overlay answers are those of applying the
\* earlier event and then the later one, an unsubscription emitted before a
\* subscription of the same block being applied before it.
C23_ReplayInEmissionOrder ==
    ( /\ last.op = "ApplyNonFinalizedState"
      /\ Len(last.subs) = 1 /\ Len(last.unsubs) = 1 ) =>
        LET e == last.subs[1]
            f == last.unsubs[1]
            expected ==
                IF EmittedBefore(e, f)
                THEN ApplyUnsubsInBlock(ApplySubsInBlock(last.before, <<e>>), <<f>>)
                ELSE ApplySubsInBlock(ApplyUnsubsInBlock(last.before, <<f>>), <<e>>)
        IN  \A v \in DOMAIN last.before :
                /\ last.after[v].status = expected[v].status
                /\ last.after[v].pending = expected[v].pending

\* C24: in the overlay a subscribe event changes a validator exactly when the
\* validator is in the map, the sender is its withdrawal address, the
\* collateral is at least the configured one, the beacon validator can still
\* subscribe and the status is Untracked or NotSubscribed: the status becomes
\* Active and the pending balance grows by the collateral.  In every other case
\* no status and no pending balance changes.
C24_OverlaySubscribeRules ==
    ( /\ last.op = "ApplyNonFinalizedState"
      /\ Len(last.subs) = 1 /\ Len(last.unsubs) = 0 ) =>
        LET e == last.subs[1]
            v == e.validatorId
        IN  IF /\ v \in DOMAIN last.before
               /\ ToLower(e.sender) = ToLower(last.before[v].withdrawal)
               /\ e.collateral >= CollateralInWei
               /\ e.canSubscribe
               /\ last.before[v].status \in {Untracked, NotSubscribed}
            THEN /\ last.after[v].status = Active
                 /\ last.after[v].status # last.before[v].status
                 /\ last.after[v].pending = last.before[v].pending + e.collateral
                 /\ \A w \in DOMAIN last.before \ {v} :
                        /\ last.after[w].status = last.before[w].status
                        /\ last.after[w].pending = last.before[w].pending
            ELSE \A w \in DOMAIN last.before :
                    /\ last.after[w].status = last.before[w].status
                    /\ last.after[w].pending = last.before[w].pending

\* A validator the oracle has no record of subscribed in the overlay, and a
\* YellowCard validator of the same map kept its status.
C24_Witness ==
    /\ last.op = "ApplyNonFinalizedState"
    /\ Len(last.subs) = 1 /\ Len(last.unsubs) = 0
    /\ LET v == last.subs[1].validatorId
       IN  /\ v \in DOMAIN last.before
           /\ v \notin Tracked(state)
           /\ last.before[v].status = Untracked
           /\ last.after[v].status = Active
           /\ last.after[v].pending = CollateralInWei
           /\ \E w \in DOMAIN last.before : last.after[w].status = YellowCard

(***************************************************************************)
(* SpecLeaves: the leaves of a drawn oracle state, its validators visited  *)
(* in any order.                                                           *)
(***************************************************************************)
LeafVals == 1..NumLeafValidators
LeafAddresses == {PoolAddress, "0xaa", "0xbb"}
LeafPoolAddresses == {PoolAddress, "0xab"}
LeafBalances == {10000, 30000}
LeafPoolFees == {0, 1}

\* The state with the records of validators v and w exchanged.
Exchanged(st, v, w) ==
    [st EXCEPT !.validators = [x \in Tracked(st) |->
        IF x = v THEN st.validators[w] ELSE IF x = w THEN st.validators[v]
        ELSE st.validators[x]]]

LeavesInit ==
    /\ \E draw \in [LeafVals -> [withdrawal : LeafAddresses, accumulated : LeafBalances]],
          fees \in LeafPoolFees, poolAddress \in LeafPoolAddresses :
        state = [validators |->
                    [v \in LeafVals |->
                        [NewValidator(v, IF v = 1 THEN NotSubscribed
                                         ELSE IF v = 2 THEN Banned ELSE Active,
                                      draw[v].withdrawal)
                            EXCEPT !.accumulated = draw[v].accumulated]],
                 poolAddress |-> poolAddress,
                 poolAccumulatedFees |-> fees,
                 latestSlot |-> DeployedSlot,
                 donations |-> <<>>]
    /\ cfg \in [poolFeesPercent : {0}]
    /\ ghost = GhostInit
    /\ last = NoOp
    /\ pre = state

DoAggregateValidatorsIndexes ==
    /\ last = NoOp
    /\ \E order \in VisitOrders(state) :
        last' = [op |-> "AggregateValidatorsIndexes", order |-> order,
                 rawLeafs |-> AggregateValidatorsIndexes(state, order)]
    /\ pre' = state
    /\ UNCHANGED <<state, cfg, ghost>>

LeavesNext == DoAggregateValidatorsIndexes

SpecLeaves == LeavesInit /\ [][LeavesNext]_vars

PositionOf(leaves, address) ==
    1 + Cardinality({i \in DOMAIN leaves :
                        AddressRank(leaves[i].address) < AddressRank(address)})

RECURSIVE SumBalances(_)
SumBalances(leaves) ==
    IF leaves = <<>> THEN 0 ELSE Head(leaves).balance + SumBalances(Tail(leaves))

TreeAddresses == <<"0x10", "0x20", "0x30", "0x40", "0x50", "0x60", "0x70">>

TreeInit ==
    /\ \E n \in 0..MaxTreeValidators, fees \in LeafPoolFees :
        state = [validators |->
                    [v \in 1..n |->
                        [NewValidator(v, Active, TreeAddresses[v])
                            EXCEPT !.accumulated = 10000 * v]],
                 poolAddress |-> PoolAddress,
                 poolAccumulatedFees |-> fees,
                 latestSlot |-> DeployedSlot,
                 donations |-> <<>>]
    /\ cfg \in [poolFeesPercent : {0}]
    /\ ghost = GhostInit
    /\ last = NoOp
    /\ pre = state

DoGenerateTreeFromState ==
    /\ last = NoOp
    /\ last' = [op |-> "GenerateTreeFromState",
                tree |-> GenerateTreeFromState(state, IndexOrder(state)),
                leaf |-> 0,
                change |-> [kind |-> "none", at |-> 0, digest |-> <<>>],
                yields |-> <<>>]
    /\ pre' = state
    /\ UNCHANGED <<state, cfg, ghost>>

\* What a proof can be presented with: nothing changed, another digest for
\* the leaf, or another digest for one of the siblings.
Changes(tree, i) ==
    LET digests == LeafDigests(tree.leafs)
        others == {ZeroRoot, tree.root,
                   LeafDigest([tree.leafs[i] EXCEPT !.balance = @ + 1])}
                  \cup {digests[j] : j \in DOMAIN digests}
    IN  {[kind |-> "none", at |-> 0, digest |-> <<>>]}
        \cup {[kind |-> "leaf", at |-> 0, digest |-> d] : d \in others \ {digests[i]}}
        \cup UNION {{[kind |-> "sibling", at |-> k, digest |-> d] :
                        d \in others \ {tree.proofs[i][k]}} :
                    k \in DOMAIN tree.proofs[i]}

\* The proof of leaf i is folded up to a root.
DoVerifyProof ==
    /\ last.op = "GenerateTreeFromState"
    /\ \E i \in DOMAIN last.tree.leafs :
        \E change \in Changes(last.tree, i) :
            last' = [last EXCEPT
                !.op = "VerifyProof",
                !.leaf = i,
                !.change = change,
                !.yields = VerifyProof(
                    IF change.kind = "leaf" THEN change.digest
                    ELSE LeafDigest(last.tree.leafs[i]),
                    Len(last.tree.leafs), i,
                    IF change.kind = "sibling"
                    THEN [last.tree.proofs[i] EXCEPT ![change.at] = change.digest]
                    ELSE last.tree.proofs[i])]
    /\ UNCHANGED <<state, cfg, ghost, pre>>

TreeNext == DoGenerateTreeFromState \/ DoVerifyProof

SpecTree == TreeInit /\ [][TreeNext]_vars

\* C33: the proof stored for each leaf of a tree, folded from the leaf's
\* digest, yields the root of the tree, whatever the number of leaves (odd
\* counts, where the last node is carried up, and a single leaf, whose digest
\* is the root and whose proof is empty); with another digest for the leaf or
\* for one sibling the proof does not yield the root.
C33_ProofsRoundTrip ==
    /\ last.op = "GenerateTreeFromState" =>
            LET tree == last.tree
                digests == LeafDigests(tree.leafs)
            IN  /\ tree.leafs = AggregateValidatorsIndexes(state, IndexOrder(state))
                /\ \A i \in DOMAIN tree.leafs :
                        VerifyProof(digests[i], Len(tree.leafs), i, tree.proofs[i]) = tree.root
                /\ Len(tree.leafs) = 1 =>
                        tree.root = digests[1] /\ tree.proofs[1] = <<>>
    /\ last.op = "VerifyProof" =>
            ((last.yields = last.tree.root) <=> (last.change.kind = "none"))

\* Five leaves, two levels of odd count: the last leaf, carried up twice, has
\* one sibling in its proof, and the proof yields the root.
C33_Witness ==
    /\ last.op = "VerifyProof"
    /\ Len(last.tree.leafs) = 5
    /\ last.leaf = 5
    /\ Len(last.tree.proofs[5]) = 1
    /\ Len(last.tree.proofs[1]) = 3
    /\ last.change.kind = "none"
    /\ last.yields = last.tree.root

(***************************************************************************)
(* SpecDriver: the driver (main, mainLoop).  One iteration of the loop     *)
(* reads the finalized epoch, processes the next slot or sleeps, and then  *)
(* tests for a checkpoint; main waits for a signal and returns, which ends *)
(* the process wherever the loop is.  last holds the loop's position (pc)  *)
(* and what it read, and whether a root was sent that came with an error   *)
(* of the dump; ghost holds what the run did: the slots processed, the     *)
(* states dumped, the roots sent to the contract.                          *)
(***************************************************************************)
SlotsInEpoch == 32
DriverDeployedSlot == 30

CheckPointSizes == {2}

\* Whether the loop processes a slot in this iteration.
ShouldProcessAlways(finalizedSlot, st) == TRUE

\* Variant: the loop never takes the processing branch.
ShouldProcessNever(finalizedSlot, st) == FALSE

ShouldProcess(finalizedSlot, st) == finalizedSlot > st.latestSlot

\* Variant: an error of the step is logged and the loop goes on.
AfterStepLogsError(err) == "checkpoint"

\* Where the loop is after the step returned: log.Fatal ends the process on
\* an error.
AfterStep(err) == IF err THEN "fatal" ELSE "checkpoint"

\* Whether the checkpoint test of the loop holds.
CheckpointReached(st) ==
    (st.latestSlot - cfg.deployedSlot) % cfg.checkPointSizeInSlots = 0

\* What the database does with a dump: it stores it, or it fails, and then
\* the root handed back is the computed one or none.
DumpOutcomes == {"stored", "failed", "failedNoRoot"}

\* OracleState.DumpOracleStateToDatabase(): the error and the Merkle root,
\* with the leaves and the proofs of the tree the root belongs to.
DumpOracleStateToDatabase(st, outcome) ==
    CHOOSE res \in
        {[err |-> outcome # "stored",
          mRoot |-> IF outcome = "failedNoRoot" THEN <<>> ELSE tree.root,
          leafs |-> tree.leafs,
          proofs |-> tree.proofs] :
            tree \in {GenerateTreeFromState(st, IndexOrder(st))}} : TRUE

\* The blocks the fetcher hands to the step: a proposal of the latest slot with
\* the pool as fee recipient or a missed one, or a block of another slot.
DriverBlocks(st) ==
    {b \in BlocksAt(st, st.latestSlot) : b.blockType \in {OkPoolProposal, MissedProposal}}
    \cup {b \in BlocksAt(st, st.latestSlot + 1) :
            b.blockType = MissedProposal /\ b.validatorIndex = 1}

\* The driver started with one of the given deployed slots configured.
DriverInitAt(deployedSlots) ==
    /\ cfg \in [poolFeesPercent : {10}, dryRun : BOOLEAN,
                 checkPointSizeInSlots : CheckPointSizes,
                 deployedSlot : deployedSlots]
    /\ state = [InitialState EXCEPT !.latestSlot = cfg.deployedSlot]
    /\ ghost = [processed |-> <<>>, checkpoints |-> <<>>, updates |-> <<>>, waits |-> 0]
    /\ last = [op |-> "mainLoop", pc |-> "loop", finalizedEpoch |-> 0,
               finalizedSlot |-> 0, err |-> FALSE, exitedAt |-> "none",
               sentOnError |-> FALSE]
    /\ pre = state

DriverInit == DriverInitAt({DriverDeployedSlot})

\* The node is syncing or does not answer: the loop sleeps and starts over.
NodeNotReady ==
    /\ last.pc = "loop"
    /\ ghost.waits < MaxWaits
    /\ ghost' = [ghost EXCEPT !.waits = @ + 1]
    /\ UNCHANGED <<state, cfg, last, pre>>

\* The finalized epoch is read; finality does not go back.
ReadFinality ==
    /\ last.pc = "loop"
    /\ \E finalizedEpoch \in last.finalizedEpoch..MaxEpoch :
        last' = [last EXCEPT !.pc = "branch",
                             !.finalizedEpoch = finalizedEpoch,
                             !.finalizedSlot = finalizedEpoch * SlotsInEpoch]
    /\ UNCHANGED <<state, cfg, ghost, pre>>

\* The step is called with one of the given blocks and has handled the
\* events and the block of the slot; or it has returned an error.
StepBeginWith(blocks) ==
    /\ last.pc = "branch"
    /\ ShouldProcess(last.finalizedSlot, state)
    /\ Len(ghost.processed) < MaxProcessed
    /\ \E blockPool \in blocks :
        \E res \in {AdvanceStateToNextSlot(state, blockPool, <<>>, <<>>, <<>>)} :
            /\ state' = [res.state EXCEPT !.latestSlot = state.latestSlot]
            /\ last' = [last EXCEPT !.pc = IF res.err THEN AfterStep(TRUE) ELSE "inStep",
                                    !.err = @ \/ res.err]
    /\ pre' = state
    /\ UNCHANGED <<cfg, ghost>>

StepBegin == StepBeginWith(DriverBlocks(state))

\* The step moves to the next slot and returns.
StepFinish ==
    /\ last.pc = "inStep"
    /\ state' = [state EXCEPT !.latestSlot = @ + 1]
    /\ ghost' = [ghost EXCEPT !.processed = Append(@, state.latestSlot)]
    /\ last' = [last EXCEPT !.pc = AfterStep(FALSE)]
    /\ UNCHANGED <<cfg, pre>>

\* No new finalized slot: the loop sleeps.
WaitForFinalizedSlot ==
    /\ last.pc = "branch"
    /\ ~ShouldProcess(last.finalizedSlot, state)
    /\ ghost.waits < MaxWaits
    /\ ghost' = [ghost EXCEPT !.waits = @ + 1]
    /\ last' = [last EXCEPT !.pc = "checkpoint"]
    /\ pre' = state
    /\ UNCHANGED <<state, cfg>>

\* The checkpoint test holds: the state is dumped, the root is sent to the
\* contract unless the run is a dry run, and an error of the dump ends the
\* process.
CheckpointWith(outcomes) ==
    /\ last.pc = "checkpoint"
    /\ CheckpointReached(state)
    /\ \E outcome \in outcomes :
        \E res \in {DumpOracleStateToDatabase(state, outcome)} :
            /\ ghost' = [ghost EXCEPT
                    !.checkpoints =
                        IF res.err THEN @
                        ELSE Append(@, [slot |-> state.latestSlot,
                                        processed |-> Len(ghost.processed),
                                        mRoot |-> res.mRoot,
                                        leafs |-> res.leafs,
                                        proofs |-> res.proofs]),
                    !.updates = IF cfg.dryRun THEN @ ELSE Append(@, res.mRoot)]
            /\ last' = [last EXCEPT !.pc = IF res.err THEN "fatal" ELSE "loop",
                                    !.sentOnError = @ \/ (~cfg.dryRun /\ res.err)]
    /\ UNCHANGED <<state, cfg, pre>>

Checkpoint == CheckpointWith(DumpOutcomes)

\* The checkpoint test fails: the next iteration starts.
NoCheckpoint ==
    /\ last.pc = "checkpoint"
    /\ ~CheckpointReached(state)
    /\ last' = [last EXCEPT !.pc = "loop"]
    /\ UNCHANGED <<state, cfg, ghost, pre>>

\* SIGINT or SIGTERM: main leaves its wait and returns, and the process ends
\* with the loop where it is.
Signal ==
    /\ last.pc \notin {"fatal", "exited"}
    /\ last' = [last EXCEPT !.pc = "exited", !.exitedAt = last.pc]
    /\ UNCHANGED <<state, cfg, ghost, pre>>

DriverNext ==
    \/ NodeNotReady
    \/ ReadFinality
    \/ StepBegin
    \/ StepFinish
    \/ WaitForFinalizedSlot
    \/ Checkpoint
    \/ NoCheckpoint
    \/ Signal

SpecDriver == DriverInit /\ [][DriverNext]_vars

\* The slots processed when checkpoint i was committed, less those processed
\* at the checkpoint before it.
ProcessedSincePrevious(i) ==
    ghost.checkpoints[i].processed
        - (IF i = 1 THEN 0 ELSE ghost.checkpoints[i - 1].processed)

\* C25 as stated: a checkpoint is committed exactly when the latest slot is a
\* whole number of checkpoint sizes from the deployed slot and a slot has been
\* processed since the checkpoint before: every committed checkpoint is at
\* such a slot, none is committed before a slot was processed, no two are
\* committed for one latest slot, and the loop does not start an iteration
\* with such a slot reached and not committed.
C25_CheckpointOncePerBoundary ==
    /\ \A i \in DOMAIN ghost.checkpoints :
        /\ (ghost.checkpoints[i].slot - cfg.deployedSlot) % cfg.checkPointSizeInSlots = 0
        /\ ghost.checkpoints[i].processed > 0
        /\ ProcessedSincePrevious(i) > 0
        /\ \A j \in DOMAIN ghost.checkpoints :
                i # j => ghost.checkpoints[i].slot # ghost.checkpoints[j].slot
    /\ ( /\ last.pc = "loop"
         /\ ghost.processed # <<>>
         /\ CheckpointReached(state) )
        => \E i \in DOMAIN ghost.checkpoints : ghost.checkpoints[i].slot = state.latestSlot

C27_RootSentAtEachCheckpoint ==
    last.op = "mainLoop" =>
        ghost.updates =
            (IF cfg.dryRun THEN <<>>
             ELSE [i \in DOMAIN ghost.checkpoints |-> ghost.checkpoints[i].mRoot])

\* C28 as stated: on a signal the driver finishes the slot it is processing
\* and then exits: the process does not end inside a step, with the block of
\* the slot handled and the latest slot not yet moved.
C28_SignalFinishesTheSlot ==
    (last.op = "mainLoop" /\ last.pc = "exited") => last.exitedAt # "inStep"

\* C29: once a step has returned an error the driver has stopped: no slot is
\* processed, no checkpoint is committed and no root is sent after it, and the
\* oracle's state stays the one the failing step was called on.
C29_StepErrorStopsTheDriver ==
    /\ []((last.op = "mainLoop" /\ last.err)
            => /\ last.pc = "fatal"
               /\ state = pre)
    /\ [][(last.op = "mainLoop" /\ last.err)
            => /\ state' = state
               /\ ghost' = ghost]_vars

\* A step failed after two slots were processed and a checkpoint committed.
C29_Witness ==
    /\ last.op = "mainLoop"
    /\ last.err
    /\ last.pc = "fatal"
    /\ Len(ghost.processed) = 2
    /\ Len(ghost.checkpoints) > 0
    /\ SumPending(state) > 0

\* C38 as stated: a root is sent to the contract only for a checkpoint whose
\* dump succeeded: UpdateContractMerkleRoot is never called with the root
\* handed back by a DumpOracleStateToDatabase call that returned an error.
C38_NoRootOfFailedDump ==
    last.op = "mainLoop" => ~last.sentOnError

(***************************************************************************)
(* SpecDriverLive: the loop of the driver with the node in sync, every     *)
(* call succeeding and no signal, started a few slots before the last      *)
(* epoch boundary the node reports.  The loop is a running goroutine: each *)
(* of its steps that stays possible is taken in the end.                   *)
(***************************************************************************)
LiveDeployedSlots == {MaxEpoch * SlotsInEpoch - 3, MaxEpoch * SlotsInEpoch - 2}
LiveSlots == (MaxEpoch * SlotsInEpoch - 3)..(MaxEpoch * SlotsInEpoch)

\* The blocks of the latest slot: the fetcher's calls succeed.
LiveBlocks(st) == {b \in DriverBlocks(st) : b.slot = st.latestSlot}

LiveInit == DriverInitAt(LiveDeployedSlots)

LiveStepBegin == StepBeginWith(LiveBlocks(state))

LiveCheckpoint == CheckpointWith({"stored"})

LiveNext ==
    \/ ReadFinality
    \/ LiveStepBegin
    \/ StepFinish
    \/ WaitForFinalizedSlot
    \/ LiveCheckpoint
    \/ NoCheckpoint

SpecDriverLive == LiveInit /\ [][LiveNext]_vars /\ WF_vars(LiveNext)

\* The slots processed so far.
ProcessedSlots == {ghost.processed[i] : i \in DOMAIN ghost.processed}

\* C39: with the node in sync and its calls succeeding, once the loop has
\* read a finalized slot greater than the latest slot it processes that slot
\* in the end; every slot from the deployed slot up to a finalized slot the
\* loop has read is processed in the end; and every checkpoint boundary after
\* the deployed slot and below that finalized slot is committed in the end.
C39_DriverProgress ==
    /\ \A s \in LiveSlots :
          (last.pc = "branch" /\ state.latestSlot = s /\ last.finalizedSlot > s)
              ~> (s \in ProcessedSlots /\ state.latestSlot > s)
    /\ \A s \in LiveSlots :
          (cfg.deployedSlot <= s /\ s < last.finalizedSlot) ~> (s \in ProcessedSlots)
    /\ \A b \in LiveSlots :
          ( /\ cfg.deployedSlot < b /\ b < last.finalizedSlot
            /\ (b - cfg.deployedSlot) % cfg.checkPointSizeInSlots = 0 )
              ~> (\E i \in DOMAIN ghost.checkpoints : ghost.checkpoints[i].slot = b)

\* The loop has caught up with the finalized slot it read: three slots were
\* processed and the checkpoint boundary on the way was committed.
C39_Witness ==
    /\ last.op = "mainLoop"
    /\ last.finalizedSlot = MaxEpoch * SlotsInEpoch
    /\ state.latestSlot = last.finalizedSlot
    /\ Len(ghost.processed) = 3
    /\ ProcessedSlots = cfg.deployedSlot..(last.finalizedSlot - 1)
    /\ \E i \in DOMAIN ghost.checkpoints :
          /\ ghost.checkpoints[i].slot = cfg.deployedSlot + cfg.checkPointSizeInSlots
          /\ ghost.checkpoints[i].slot < last.finalizedSlot

(***************************************************************************)
(* SpecApi: the driver and the API server of one process.  The loop of the *)
(* driver runs as in SpecDriverLive, one proposal of the pool for each     *)
(* slot; a request handler runs beside it, and each of its reads of the    *)
(* oracle's state (m.oracle.State()), of the contract and of the node is a *)
(* step of its own, so the driver can move between any two of them.        *)
(* ghost.request holds the handler's position and what it has read.        *)
(***************************************************************************)
\* An unsigned 64-bit word, written as four 16-bit limbs, the lowest first.
Limb == 65536

Word64(n) == <<n % Limb, (n \div Limb) % Limb, 0, 0>>

\* x - y in unsigned 64-bit arithmetic: limb by limb with a borrow, the
\* borrow out of the highest limb dropped.
Sub64(x, y) ==
    LET d1 == x[1] - y[1]
        b1 == IF d1 < 0 THEN 1 ELSE 0
        d2 == x[2] - y[2] - b1
        b2 == IF d2 < 0 THEN 1 ELSE 0
        d3 == x[3] - y[3] - b2
        b3 == IF d3 < 0 THEN 1 ELSE 0
        d4 == x[4] - y[4] - b3
    IN  <<(d1 + Limb) % Limb, (d2 + Limb) % Limb, (d3 + Limb) % Limb, (d4 + Limb) % Limb>>

\* x > y for unsigned 64-bit words.
Gt64(x, y) ==
    \E i \in 1..4 : x[i] > y[i] /\ \A j \in (i + 1)..4 : x[j] = y[j]

\* The addresses proofs are asked for: the pool's and the validators'.
ApiAddresses == {PoolAddress} \cup {WithdrawalOf(v) : v \in Vals}

\* The block the fetcher hands over for the latest slot: a proposal that
\* paid the pool, of validator 1 or 2 by turns.
ApiBlocks(st) ==
    {b \in DriverBlocks(st) :
        /\ b.slot = st.latestSlot
        /\ b.blockType = OkPoolProposal
        /\ b.validatorIndex = 1 + (st.latestSlot % 2)}

NoRequest == [kind |-> "none", pc |-> "none"]

ApiInit ==
    /\ cfg \in [poolFeesPercent : {10}, dryRun : BOOLEAN,
                 checkPointSizeInSlots : CheckPointSizes,
                 deployedSlot : {DriverDeployedSlot}]
    /\ state = [InitialState EXCEPT !.latestSlot = cfg.deployedSlot]
    /\ ghost = [processed |-> <<>>, checkpoints |-> <<>>, updates |-> <<>>, waits |-> 0,
                requests |-> 0, request |-> NoRequest]
    /\ last = [op |-> "mainLoop", pc |-> "loop", finalizedEpoch |-> 0,
               finalizedSlot |-> 0, err |-> FALSE, exitedAt |-> "none",
               sentOnError |-> FALSE]
    /\ pre = state

ApiStepBegin == StepBeginWith(ApiBlocks(state))

\* m.oracle.State().LatestCommitedState: what the last dump stored.
LatestCommitedState ==
    IF ghost.checkpoints = <<>>
    THEN [slot |-> 0, processed |-> 0, mRoot |-> <<>>, leafs |-> <<>>, proofs |-> <<>>]
    ELSE ghost.checkpoints[Len(ghost.checkpoints)]

\* Onchain.GetContractMerkleRoot(): the root the contract was last given,
\* the zero word while it was given none.
GetContractMerkleRoot ==
    IF ghost.updates = <<>> THEN ZeroRoot ELSE ghost.updates[Len(ghost.updates)]

\* The entries of an address in the leaves of a committed state.
EntriesOf(commited, address) ==
    {i \in DOMAIN commited.leafs : commited.leafs[i].address = address}

\* A handler moves: its request record changes, nothing else does.
Served(request) ==
    /\ ghost' = [ghost EXCEPT !.request = request]
    /\ UNCHANGED <<state, cfg, last, pre>>

\* handleOnchainMerkleProof, OracleReady: the finalized epoch is read from
\* the node, which does not report less than it reported to the driver.
ProofReadFinality ==
    /\ ghost.request.pc \in {"none", "responded"}
    /\ ghost.requests < MaxRequests
    /\ \E withdrawalAddress \in ApiAddresses, finalizedEpoch \in last.finalizedEpoch..MaxEpoch :
        ghost' = [ghost EXCEPT
            !.requests = @ + 1,
            !.request = [kind |-> "proof", pc |-> "ready",
                         withdrawalAddress |-> withdrawalAddress,
                         finalizedSlot |-> finalizedEpoch * SlotsInEpoch,
                         latestProcessedSlot |-> 0,
                         slotsFromFinalized |-> Word64(0),
                         ready |-> FALSE,
                         contractRoot |-> <<>>, oracleLatestRoot |-> <<>>,
                         proofs |-> <<>>,
                         leafs |-> [address |-> "", balance |-> 0],
                         merkleRoot |-> <<>>, checkpointSlot |-> 0,
                         code |-> 0]]
    /\ UNCHANGED <<state, cfg, last, pre>>

\* OracleReady(32 * 1): the latest processed slot is read and subtracted
\* from the finalized slot.
ProofOracleReady ==
    /\ ghost.request.kind = "proof" /\ ghost.request.pc = "ready"
    /\ \E slotsFromFinalized \in
            {Sub64(Word64(ghost.request.finalizedSlot), Word64(state.latestSlot))} :
        Served([ghost.request EXCEPT
            !.latestProcessedSlot = state.latestSlot,
            !.slotsFromFinalized = slotsFromFinalized,
            !.ready = ~Gt64(slotsFromFinalized, Word64(32 * 1)),
            !.pc = IF Gt64(slotsFromFinalized, Word64(32 * 1))
                   THEN "responded" ELSE "contractRoot",
            !.code = IF Gt64(slotsFromFinalized, Word64(32 * 1)) THEN 500 ELSE 0])

ProofReadContractRoot ==
    /\ ghost.request.kind = "proof" /\ ghost.request.pc = "contractRoot"
    /\ Served([ghost.request EXCEPT
            !.contractRoot = GetContractMerkleRoot,
            !.pc = "oracleRoot"])

\* The root of the latest committed state is compared with the contract's.
ProofCheckRoot ==
    /\ ghost.request.kind = "proof" /\ ghost.request.pc = "oracleRoot"
    /\ Served([ghost.request EXCEPT
            !.oracleLatestRoot = LatestCommitedState.mRoot,
            !.pc = IF ghost.request.contractRoot # LatestCommitedState.mRoot
                   THEN "responded" ELSE "proofs",
            !.code = IF ghost.request.contractRoot # LatestCommitedState.mRoot
                     THEN 500 ELSE 0])

ProofReadProofs ==
    /\ ghost.request.kind = "proof" /\ ghost.request.pc = "proofs"
    /\ \E commited \in {LatestCommitedState} :
        \E found \in {EntriesOf(commited, ghost.request.withdrawalAddress)} :
            Served(IF found = {}
                   THEN [ghost.request EXCEPT !.pc = "responded", !.code = 400]
                   ELSE [ghost.request EXCEPT
                            !.proofs = commited.proofs[CHOOSE i \in found : TRUE],
                            !.pc = "leafs"])

ProofReadLeafs ==
    /\ ghost.request.kind = "proof" /\ ghost.request.pc = "leafs"
    /\ \E commited \in {LatestCommitedState} :
        \E found \in {EntriesOf(commited, ghost.request.withdrawalAddress)} :
            Served(IF found = {}
                   THEN [ghost.request EXCEPT !.pc = "responded", !.code = 400]
                   ELSE [ghost.request EXCEPT
                            !.leafs = commited.leafs[CHOOSE i \in found : TRUE],
                            !.pc = "merkleRoot"])

ProofReadMerkleRoot ==
    /\ ghost.request.kind = "proof" /\ ghost.request.pc = "merkleRoot"
    /\ Served([ghost.request EXCEPT
            !.merkleRoot = LatestCommitedState.mRoot,
            !.pc = "checkpointSlot"])

ProofRespond ==
    /\ ghost.request.kind = "proof" /\ ghost.request.pc = "checkpointSlot"
    /\ Served([ghost.request EXCEPT
            !.checkpointSlot = LatestCommitedState.slot,
            !.pc = "responded",
            !.code = 200])

\* What handleMemoryStatistics reports of the validators of a state, of its
\* proposed blocks and of its latest slot.
ValidatorTotals(st) ==
    [totalSubscribed |-> Cardinality(SubscribedSet(st)),
     totalBanned |-> Cardinality({v \in Tracked(st) : StatusOf(st, v) = Banned}),
     totalNotSubscribed |-> Cardinality({v \in Tracked(st) : StatusOf(st, v) = NotSubscribed}),
     totalAccumulatedRewardsWei |-> SumAccumulated(st),
     totalPendingRewardsWei |-> SumPending(st)]

TotalProposedBlocks(st) ==
    SumOver([v \in Tracked(st) |-> Len(st.validators[v].proposed)], Tracked(st))

\* handleMemoryStatistics: the validators are walked.
StatisticsReadValidators ==
    /\ ghost.request.pc \in {"none", "responded"}
    /\ ghost.requests < MaxRequests
    /\ ghost' = [ghost EXCEPT
            !.requests = @ + 1,
            !.request = [kind |-> "statistics", pc |-> "proposedBlocks",
                         totals |-> ValidatorTotals(state),
                         totalProposedBlocks |-> 0,
                         latestProcessedSlot |-> 0,
                         code |-> 0]]
    /\ UNCHANGED <<state, cfg, last, pre>>

StatisticsReadProposedBlocks ==
    /\ ghost.request.kind = "statistics" /\ ghost.request.pc = "proposedBlocks"
    /\ Served([ghost.request EXCEPT
            !.totalProposedBlocks = TotalProposedBlocks(state),
            !.pc = "latestProcessedSlot"])

StatisticsRespond ==
    /\ ghost.request.kind = "statistics" /\ ghost.request.pc = "latestProcessedSlot"
    /\ Served([ghost.request EXCEPT
            !.latestProcessedSlot = state.latestSlot,
            !.pc = "responded",
            !.code = 200])

ApiNext ==
    \/ ReadFinality
    \/ ApiStepBegin
    \/ StepFinish
    \/ WaitForFinalizedSlot
    \/ LiveCheckpoint
    \/ NoCheckpoint
    \/ ProofReadFinality
    \/ ProofOracleReady
    \/ ProofReadContractRoot
    \/ ProofCheckRoot
    \/ ProofReadProofs
    \/ ProofReadLeafs
    \/ ProofReadMerkleRoot
    \/ ProofRespond
    \/ StatisticsReadValidators
    \/ StatisticsReadProposedBlocks
    \/ StatisticsRespond

SpecApi == ApiInit /\ [][ApiNext]_vars

\* C40: the readiness check of a request does not wrap: the difference it
\* computes is no more than the finalized slot it was taken from, and an
\* oracle whose latest processed slot has reached the finalized slot the
\* request read is reported ready.
C40_CaughtUpOracleIsReady ==
    (ghost.request.kind = "proof" /\ ghost.request.pc # "ready") =>
        /\ ~Gt64(ghost.request.slotsFromFinalized, Word64(ghost.request.finalizedSlot))
        /\ (ghost.request.latestProcessedSlot >= ghost.request.finalizedSlot
                => ghost.request.ready)

\* C34: a proof is served only when the contract's root is the root of the
\* latest committed state, and then its proofs, leaf, root and slot are
\* those of one checkpoint, the one whose root the contract holds.
C34_ProofOfOneCheckpoint ==
    (ghost.request.kind = "proof" /\ ghost.request.pc = "responded"
        /\ ghost.request.code = 200) =>
        /\ ghost.request.contractRoot = ghost.request.oracleLatestRoot
        /\ \E c \in DOMAIN ghost.checkpoints :
            LET commited == ghost.checkpoints[c]
            IN  /\ commited.mRoot = ghost.request.contractRoot
                /\ commited.mRoot = ghost.request.merkleRoot
                /\ commited.slot = ghost.request.checkpointSlot
                /\ \E i \in DOMAIN commited.leafs :
                    /\ commited.leafs[i] = ghost.request.leafs
                    /\ commited.proofs[i] = ghost.request.proofs

\* The state after the first k slots of the run were processed whole.
RECURSIVE CompleteAt(_)
CompleteAt(k) ==
    IF k = 0
    THEN [InitialState EXCEPT !.latestSlot = cfg.deployedSlot]
    ELSE CHOOSE st \in
            {[AdvanceStateToNextSlot(before, CHOOSE b \in ApiBlocks(before) : TRUE,
                                     <<>>, <<>>, <<>>).state
                EXCEPT !.latestSlot = before.latestSlot + 1]
                : before \in {CompleteAt(k - 1)}} : TRUE

\* C35: the statistics of a response are those of one state of the oracle
\* between two slots: the state before the run's first slot or the state
\* after one of the slots processed since.
C35_StatisticsOfOneState ==
    (ghost.request.kind = "statistics" /\ ghost.request.pc = "responded") =>
        \E k \in 0..Len(ghost.processed) :
            \E st \in {CompleteAt(k)} :
                /\ ghost.request.totals = ValidatorTotals(st)
                /\ ghost.request.totalProposedBlocks = TotalProposedBlocks(st)
                /\ ghost.request.latestProcessedSlot = st.latestSlot

(***************************************************************************)
(* SpecSM: one subscribed validator taken through state-machine events.    *)
(* Proposal events reach it through the per-slot step, as blocks of the    *)
(* latest slot without contract events; UnbanValidator is fired on the     *)
(* state machine directly.                                                 *)
(***************************************************************************)
SMValidator == 1

EventOfBlock(t) ==
    CASE t = MissedProposal -> MissedProposalEvent
      [] t = OkPoolProposal -> ProposalWithCorrectFee
      [] t = WrongFeeRecipient -> ProposalWithWrongFee

SMInit ==
    /\ state = AddSubscriptionIfNotAlready(InitialState, SMValidator, WithdrawalOf(SMValidator))
    /\ cfg \in [poolFeesPercent : PoolFeesPercents]
    /\ ghost = GhostInit
    /\ last = [op |-> "StateMachine", event |-> "none", from |-> Active,
               trail |-> <<>>, path |-> <<>>]
    /\ pre = state

SMRecord(event) ==
    /\ last' = [op |-> "StateMachine", event |-> event,
                from |-> StatusOf(state, SMValidator),
                trail |-> Append(last.trail, event),
                path |-> Append(last.path, StatusOf(state', SMValidator))]
    /\ pre' = state
    /\ UNCHANGED <<cfg, ghost>>

SMProposal ==
    /\ Len(last.trail) < MaxTrail
    /\ \E t \in {MissedProposal, OkPoolProposal, WrongFeeRecipient} :
        /\ state' = AdvanceStateToNextSlot(state,
                        [slot |-> state.latestSlot, blockType |-> t,
                         validatorIndex |-> SMValidator,
                         reward |-> IF t = MissedProposal THEN 0 ELSE BlockReward],
                        <<>>, <<>>, <<>>).state
        /\ SMRecord(EventOfBlock(t))

SMUnban ==
    /\ Len(last.trail) < MaxTrail
    /\ state' = AdvanceStateMachine(state, SMValidator, UnbanValidator)
    /\ SMRecord(UnbanValidator)

SMNext == SMProposal \/ SMUnban

SpecSM == SMInit /\ [][SMNext]_vars

SMStatus == StatusOf(state, SMValidator)

====
